---- MODULE Spec2Model ----
(***************************************************************************)
(* Resource-logic bytecode dispatch, the binding check against the         *)
(* compliance nullifiers/commitments, and the application-bytecode         *)
(* aggregator of taiga_halo2 (src/circuit/resource_logic_bytecode.rs).     *)
(***************************************************************************)
EXTENDS Integers, Sequences, FiniteSets, TLC

\* Number of distinct field-element values drawn for nullifiers, commitments
\* and owned-resource-ids.
MaxField == 3

\* Largest number of dynamic resource logics of an ApplicationByteCode.
MaxDynamic == 2

Field == 0 .. (MaxField - 1)

(***************************************************************************)
(* Results: Rust's Result<T, TransactionError>.                            *)
(***************************************************************************)
NoResult == [kind |-> "None"]

Ok(v) == [kind |-> "Ok", val |-> v]

Err(e) == [kind |-> "Err", err |-> e]

IsOk(r) == r.kind = "Ok"

IsErr(r) == r.kind = "Err"

(***************************************************************************)
(* The representation catalogue and the cargo features that gate it.       *)
(***************************************************************************)
ExampleTags ==
    {"Token", "SignatureVerification", "Receiver", "PartialFulfillmentIntent",
     "OrRelationIntent", "CascadeIntent"}

ResourceLogicRepresentation == {"VampIR", "Trivial"} \cup ExampleTags

Features == {"borsh", "examples"}

(***************************************************************************)
(* Public inputs: a vector of field elements indexed from 0, whose         *)
(* reserved slots are read through get_from_index.                         *)
(***************************************************************************)
RESOURCE_LOGIC_CIRCUIT_OWNED_RESOURCE_ID_PUBLIC_INPUT_IDX == 0

RESOURCE_LOGIC_CIRCUIT_NULLIFIER_ONE_PUBLIC_INPUT_IDX == 1

RESOURCE_LOGIC_CIRCUIT_NULLIFIER_TWO_PUBLIC_INPUT_IDX == 2

RESOURCE_LOGIC_CIRCUIT_OUTPUT_CM_ONE_PUBLIC_INPUT_IDX == 3

RESOURCE_LOGIC_CIRCUIT_OUTPUT_CM_TWO_PUBLIC_INPUT_IDX == 4

ReservedSlots ==
    {RESOURCE_LOGIC_CIRCUIT_OWNED_RESOURCE_ID_PUBLIC_INPUT_IDX,
     RESOURCE_LOGIC_CIRCUIT_NULLIFIER_ONE_PUBLIC_INPUT_IDX,
     RESOURCE_LOGIC_CIRCUIT_NULLIFIER_TWO_PUBLIC_INPUT_IDX,
     RESOURCE_LOGIC_CIRCUIT_OUTPUT_CM_ONE_PUBLIC_INPUT_IDX,
     RESOURCE_LOGIC_CIRCUIT_OUTPUT_CM_TWO_PUBLIC_INPUT_IDX}

ResourceLogicPublicInputs == [ReservedSlots -> Field]

get_from_index(public_inputs_, idx_) == public_inputs_[idx_]

(***************************************************************************)
(* A bytecode: the tag and the input bytes.  The bytes decode (from_bytes)  *)
(* to a circuit instance, which determines the public inputs the circuit    *)
(* computes and whether its own constraints are satisfied.                  *)
(***************************************************************************)
CircuitInputs == [public_inputs : ResourceLogicPublicInputs, satisfied : BOOLEAN]

ResourceLogicByteCode == [circuit : ResourceLogicRepresentation, inputs : CircuitInputs]

ResourceLogicByteCode_new(circuit_, inputs_) == [circuit |-> circuit_, inputs |-> inputs_]

ApplicationByteCode_new(app_, dynamic_) ==
    [app_resource_logic_bytecode |-> app_, dynamic_resource_logic_bytecode |-> dynamic_]

\* The circuit's own transparent evaluation (ResourceLogicVerifyingInfoTrait):
\* the public inputs, or the circuit's failure.
CircuitVerifyTransparently(inputs_) ==
    IF inputs_.satisfied
    THEN Ok(inputs_.public_inputs)
    ELSE Err("ProofVerificationFailure")

\* The artifact of proving (ResourceLogicVerifyingInfoTrait::get_verifying_info).
GetVerifyingInfo(bytecode_) ==
    [circuit |-> bytecode_.circuit, public_inputs |-> bytecode_.inputs.public_inputs]

\* Compiled with the cfg attribute of the Trivial arm left out.
Compiled_TrivialUngated(features_, tag_) ==
    \/ tag_ \in {"VampIR", "Trivial"}
    \/ tag_ \in ExampleTags /\ "examples" \in features_

\* Whether the match arm of a tag exists in a build with the given features.
Compiled(features_, tag_) ==
    \/ tag_ = "VampIR"
    \/ tag_ = "Trivial" /\ "borsh" \in features_
    \/ tag_ \in ExampleTags /\ "examples" \in features_

\* ResourceLogicByteCode::generate_proof
GenerateProof(features_, bytecode_) ==
    IF Compiled(features_, bytecode_.circuit)
    THEN Ok(GetVerifyingInfo(bytecode_))
    ELSE Err("InvalidResourceLogicRepresentation")

\* The dispatch of ResourceLogicByteCode::verify_transparently: the match that
\* yields the public inputs, returns the circuit's error, or falls to the
\* catch-all arm.
Dispatch(features_, bytecode_) ==
    IF Compiled(features_, bytecode_.circuit)
    THEN CircuitVerifyTransparently(bytecode_.inputs)
    ELSE Err("InvalidResourceLogicRepresentation")

\* NullifiersConsistent over the whole slice: the nullifiers found anywhere in
\* compliance_nfs are the logic's two.
NullifiersConsistent_WholeSlice(public_inputs_, compliance_nfs_) ==
    {compliance_nfs_[i] : i \in DOMAIN compliance_nfs_} =
        {get_from_index(public_inputs_, RESOURCE_LOGIC_CIRCUIT_NULLIFIER_ONE_PUBLIC_INPUT_IDX),
         get_from_index(public_inputs_, RESOURCE_LOGIC_CIRCUIT_NULLIFIER_TWO_PUBLIC_INPUT_IDX)}

\* NullifiersConsistent without the swapped pairing.
NullifiersConsistent_IdentityOnly(public_inputs_, compliance_nfs_) ==
    /\ compliance_nfs_[1] =
          get_from_index(public_inputs_, RESOURCE_LOGIC_CIRCUIT_NULLIFIER_ONE_PUBLIC_INPUT_IDX)
    /\ compliance_nfs_[2] =
          get_from_index(public_inputs_, RESOURCE_LOGIC_CIRCUIT_NULLIFIER_TWO_PUBLIC_INPUT_IDX)

\* NullifiersConsistent as a membership test: each compliance nullifier occurs
\* among the logic's nullifiers.
NullifiersConsistent_Membership(public_inputs_, compliance_nfs_) ==
    LET resource_logic_nfs ==
            {get_from_index(public_inputs_, RESOURCE_LOGIC_CIRCUIT_NULLIFIER_ONE_PUBLIC_INPUT_IDX),
             get_from_index(public_inputs_, RESOURCE_LOGIC_CIRCUIT_NULLIFIER_TWO_PUBLIC_INPUT_IDX)}
    IN  /\ compliance_nfs_[1] \in resource_logic_nfs
        /\ compliance_nfs_[2] \in resource_logic_nfs

\* The nullifier test: identity pairing or swapped pairing.
NullifiersConsistent(public_inputs_, compliance_nfs_) ==
    LET resource_logic_nfs ==
            <<get_from_index(public_inputs_, RESOURCE_LOGIC_CIRCUIT_NULLIFIER_ONE_PUBLIC_INPUT_IDX),
              get_from_index(public_inputs_, RESOURCE_LOGIC_CIRCUIT_NULLIFIER_TWO_PUBLIC_INPUT_IDX)>>
    IN  \/ /\ compliance_nfs_[1] = resource_logic_nfs[1]
           /\ compliance_nfs_[2] = resource_logic_nfs[2]
        \/ /\ compliance_nfs_[1] = resource_logic_nfs[2]
           /\ compliance_nfs_[2] = resource_logic_nfs[1]

\* CommitmentsConsistent whose swapped pairing compares both compliance
\* commitments with the logic's second commitment.
CommitmentsConsistent_SameSlot(public_inputs_, compliance_cms_) ==
    LET resource_logic_cms ==
            <<get_from_index(public_inputs_, RESOURCE_LOGIC_CIRCUIT_OUTPUT_CM_ONE_PUBLIC_INPUT_IDX),
              get_from_index(public_inputs_, RESOURCE_LOGIC_CIRCUIT_OUTPUT_CM_TWO_PUBLIC_INPUT_IDX)>>
    IN  \/ /\ compliance_cms_[1] = resource_logic_cms[1]
           /\ compliance_cms_[2] = resource_logic_cms[2]
        \/ /\ compliance_cms_[1] = resource_logic_cms[2]
           /\ compliance_cms_[2] = resource_logic_cms[2]

\* The commitment test: identity pairing or swapped pairing.
CommitmentsConsistent(public_inputs_, compliance_cms_) ==
    LET resource_logic_cms ==
            <<get_from_index(public_inputs_, RESOURCE_LOGIC_CIRCUIT_OUTPUT_CM_ONE_PUBLIC_INPUT_IDX),
              get_from_index(public_inputs_, RESOURCE_LOGIC_CIRCUIT_OUTPUT_CM_TWO_PUBLIC_INPUT_IDX)>>
    IN  \/ /\ compliance_cms_[1] = resource_logic_cms[1]
           /\ compliance_cms_[2] = resource_logic_cms[2]
        \/ /\ compliance_cms_[1] = resource_logic_cms[2]
           /\ compliance_cms_[2] = resource_logic_cms[1]

\* The owned resource id read from the first slot behind the reserved ones.
OwnedResourceId_FirstUnreserved(public_inputs_) ==
    get_from_index(public_inputs_, Cardinality(ReservedSlots))

\* OwnedResourceId reading the first nullifier slot.
OwnedResourceId_NullifierSlot(public_inputs_) ==
    get_from_index(public_inputs_, RESOURCE_LOGIC_CIRCUIT_NULLIFIER_ONE_PUBLIC_INPUT_IDX)

\* The value returned on success.
OwnedResourceId(public_inputs_) ==
    get_from_index(public_inputs_, RESOURCE_LOGIC_CIRCUIT_OWNED_RESOURCE_ID_PUBLIC_INPUT_IDX)

\* ResourceLogicByteCode::verify_transparently as one call.
RLVerifyTransparently(features_, bytecode_, compliance_nfs_, compliance_cms_) ==
    LET d == Dispatch(features_, bytecode_)
    IN  IF IsErr(d) THEN d
        ELSE IF ~NullifiersConsistent(d.val, compliance_nfs_)
             THEN Err("InconsistentNullifier")
        ELSE IF ~CommitmentsConsistent(d.val, compliance_cms_)
             THEN Err("InconsistentOutputResourceCommitment")
        ELSE Ok(OwnedResourceId(d.val))

(***************************************************************************)
(* State.                                                                  *)
(***************************************************************************)
VARIABLES
    features,              \* cargo features of the build
    logic,                 \* the ResourceLogicByteCode being evaluated (self)
    application,           \* the ApplicationByteCode (self)
    compliance_nfs,        \* the compliance nullifiers passed by the caller
    compliance_cms,        \* the compliance commitments passed by the caller
    op,                    \* the method that was called
    pc,                    \* position inside the method
    public_inputs,         \* local of ResourceLogicByteCode::verify_transparently
    compared,              \* which binding comparisons have been evaluated
    owned_resource_id,     \* local of ApplicationByteCode::verify_transparently
    idx,                   \* position of the iterator over the dynamic logics
    verifying_infos,       \* verifying infos produced so far by generate_proofs
    evaluated,             \* logics evaluated so far: 0 mandatory, k the k-th dynamic
    result,                \* the value returned
    witness,               \* the values a circuit is synthesized with
    cells,                 \* the cells assigned by the gadgets of a circuit
    unsatisfied,           \* the constraints of a circuit that do not hold
    transaction,           \* the partial transactions of a transaction
    position,              \* the resource logics of the transaction being verified
    tx_result              \* what executing the transaction returned

vars ==
    <<features, logic, application, compliance_nfs, compliance_cms, op, pc,
      public_inputs, compared, owned_resource_id, idx, verifying_infos,
      evaluated, result, witness, cells, unsatisfied, transaction, position,
      tx_result>>

\* The state of a circuit under synthesis; the bytecode methods leave it alone.
circuitVars == <<witness, cells, unsatisfied>>

\* The transaction under execution; the bytecode methods leave it alone.
txVars == <<transaction, position, tx_result>>

\* The state outside the bytecode methods.
outerVars == <<circuitVars, txVars>>

callVars ==
    <<features, logic, application, compliance_nfs, compliance_cms, outerVars>>

appLocals == <<owned_resource_id, idx, verifying_infos, evaluated>>

\* The caller's pair of nullifiers (of commitments).  Field elements are only
\* compared for equality, so up to renaming a pair is <<0, 0>> or <<0, 1>>; the
\* slots of the logics range over all of Field.
CompliancePairs == {p \in [1 .. 2 -> Field] : p[1] = 0 /\ p[2] <= 1}

InitLocals ==
    /\ op = "none"
    /\ pc = "idle"
    /\ public_inputs = <<>>
    /\ compared = {}
    /\ owned_resource_id = 0
    /\ idx = 0
    /\ verifying_infos = <<>>
    /\ evaluated = <<>>
    /\ result = NoResult
    /\ witness = <<>>
    /\ cells = <<>>
    /\ unsatisfied = {}
    /\ transaction = <<>>
    /\ position = <<>>
    /\ tx_result = NoResult

(***************************************************************************)
(* One resource logic: ResourceLogicByteCode::verify_transparently step by *)
(* step, and ResourceLogicByteCode::generate_proof.                        *)
(***************************************************************************)
InitLogic ==
    /\ features \in SUBSET Features
    /\ logic \in ResourceLogicByteCode
    /\ application = ApplicationByteCode_new(logic, <<>>)
    /\ compliance_nfs \in CompliancePairs
    /\ compliance_cms \in CompliancePairs
    /\ InitLocals

\* let public_inputs = match &self.circuit { ... };
RLDispatch ==
    /\ pc = "idle"
    /\ op' = "verify_transparently"
    /\ LET d == Dispatch(features, logic)
       IN  IF IsErr(d)
           THEN /\ result' = d
                /\ pc' = "done"
                /\ UNCHANGED public_inputs
           ELSE /\ public_inputs' = d.val
                /\ pc' = "check_nfs"
                /\ UNCHANGED result
    /\ UNCHANGED <<callVars, compared, appLocals>>

\* RLCheckNullifiers with the two checks in the other order: the commitments
\* are compared first and their error is returned before the nullifiers'.
RLCheckNullifiers_CommitmentsFirst ==
    /\ pc = "check_nfs"
    /\ compared' = compared \cup {"nfs"}
    /\ IF ~CommitmentsConsistent(public_inputs, compliance_cms)
       THEN /\ result' = Err("InconsistentOutputResourceCommitment")
            /\ pc' = "done"
       ELSE IF ~NullifiersConsistent(public_inputs, compliance_nfs)
       THEN /\ result' = Err("InconsistentNullifier")
            /\ pc' = "done"
       ELSE /\ pc' = "check_cms"
            /\ UNCHANGED result
    /\ UNCHANGED <<callVars, op, public_inputs, appLocals>>

\* check nullifiers
RLCheckNullifiers ==
    /\ pc = "check_nfs"
    /\ compared' = compared \cup {"nfs"}
    /\ IF ~NullifiersConsistent(public_inputs, compliance_nfs)
       THEN /\ result' = Err("InconsistentNullifier")
            /\ pc' = "done"
       ELSE /\ pc' = "check_cms"
            /\ UNCHANGED result
    /\ UNCHANGED <<callVars, op, public_inputs, appLocals>>

\* check resource_commitments, then return the owned resource id
RLCheckCommitments ==
    /\ pc = "check_cms"
    /\ compared' = compared \cup {"cms"}
    /\ IF ~CommitmentsConsistent(public_inputs, compliance_cms)
       THEN result' = Err("InconsistentOutputResourceCommitment")
       ELSE result' = Ok(OwnedResourceId(public_inputs))
    /\ pc' = "done"
    /\ UNCHANGED <<callVars, op, public_inputs, appLocals>>

\* ResourceLogicByteCode::generate_proof
RLGenerateProof ==
    /\ pc = "idle"
    /\ op' = "generate_proof"
    /\ result' = GenerateProof(features, logic)
    /\ pc' = "done"
    /\ UNCHANGED <<callVars, public_inputs, compared, appLocals>>

NextLogic ==
    \/ RLDispatch
    \/ RLCheckNullifiers
    \/ RLCheckCommitments
    \/ RLGenerateProof

SpecLogic == InitLogic /\ [][NextLogic]_vars

TypeOK ==
    /\ features \subseteq Features
    /\ logic \in ResourceLogicByteCode
    /\ compliance_nfs \in CompliancePairs
    /\ compliance_cms \in CompliancePairs
    /\ pc \in {"idle", "check_nfs", "check_cms", "loop", "collect", "done"}
    /\ compared \subseteq {"nfs", "cms"}
    /\ result.kind \in {"None", "Ok", "Err"}
    /\ (pc = "done") = (result.kind # "None")

(***************************************************************************)
(* The aggregator: ApplicationByteCode::verify_transparently and           *)
(* ApplicationByteCode::generate_proofs, one step per logic.               *)
(***************************************************************************)
\* How many of these a logic has: an unsatisfied circuit, a repeated nullifier,
\* a repeated commitment.
Defects(bytecode_) ==
    LET pi == bytecode_.inputs.public_inputs
    IN  (IF bytecode_.inputs.satisfied THEN 0 ELSE 1)
      + (IF pi[RESOURCE_LOGIC_CIRCUIT_NULLIFIER_TWO_PUBLIC_INPUT_IDX] = 1 THEN 0 ELSE 1)
      + (IF pi[RESOURCE_LOGIC_CIRCUIT_OUTPUT_CM_TWO_PUBLIC_INPUT_IDX] = 1 THEN 0 ELSE 1)

\* The logics applications are built from: an ungated or a feature-gated tag
\* with any owned-resource-id and the pairs <<0, 1>>, and the ungated tag with
\* id 0 and one of: an unsatisfied circuit, the nullifier pair <<0, 0>>, the
\* commitment pair <<0, 0>>.
SampleLogics ==
    {b \in ResourceLogicByteCode :
        /\ b.circuit \in {"VampIR", "Token"}
        /\ b.inputs.public_inputs[RESOURCE_LOGIC_CIRCUIT_NULLIFIER_ONE_PUBLIC_INPUT_IDX] = 0
        /\ b.inputs.public_inputs[RESOURCE_LOGIC_CIRCUIT_OUTPUT_CM_ONE_PUBLIC_INPUT_IDX] = 0
        /\ b.inputs.public_inputs[RESOURCE_LOGIC_CIRCUIT_NULLIFIER_TWO_PUBLIC_INPUT_IDX] <= 1
        /\ b.inputs.public_inputs[RESOURCE_LOGIC_CIRCUIT_OUTPUT_CM_TWO_PUBLIC_INPUT_IDX] <= 1
        /\ Defects(b) <= 1
        /\ Defects(b) = 1 =>
              /\ b.circuit = "VampIR"
              /\ b.inputs.public_inputs[RESOURCE_LOGIC_CIRCUIT_OWNED_RESOURCE_ID_PUBLIC_INPUT_IDX] = 0}

DynamicLists == UNION {[1 .. n -> SampleLogics] : n \in 0 .. MaxDynamic}

Init ==
    /\ features \in SUBSET Features
    /\ application \in
          {ApplicationByteCode_new(a, d) : a \in SampleLogics, d \in DynamicLists}
    /\ logic = application.app_resource_logic_bytecode
    /\ compliance_nfs \in CompliancePairs
    /\ compliance_cms \in CompliancePairs
    /\ InitLocals

\* let owned_resource_id = self.app_resource_logic_bytecode.verify_transparently(..)?;
AppVerifyMandatory ==
    /\ pc = "idle"
    /\ op' = "verify_transparently"
    /\ logic' = application.app_resource_logic_bytecode
    /\ evaluated' = <<0>>
    /\ LET r == RLVerifyTransparently(features, application.app_resource_logic_bytecode,
                                      compliance_nfs, compliance_cms)
       IN  IF IsErr(r)
           THEN /\ result' = r
                /\ pc' = "done"
                /\ UNCHANGED <<owned_resource_id, idx>>
           ELSE /\ owned_resource_id' = r.val
                /\ idx' = 1
                /\ pc' = "loop"
                /\ UNCHANGED result
    /\ UNCHANGED <<outerVars, features, application, compliance_nfs, compliance_cms,
                   public_inputs, compared, verifying_infos>>

\* AppVerifyDynamic without the comparison of the id with owned_resource_id.
AppVerifyDynamic_NoIdCheck ==
    /\ pc = "loop"
    /\ op = "verify_transparently"
    /\ idx <= Len(application.dynamic_resource_logic_bytecode)
    /\ logic' = application.dynamic_resource_logic_bytecode[idx]
    /\ evaluated' = Append(evaluated, idx)
    /\ LET id == RLVerifyTransparently(features,
                                       application.dynamic_resource_logic_bytecode[idx],
                                       compliance_nfs, compliance_cms)
       IN  IF IsErr(id)
           THEN /\ result' = id
                /\ pc' = "done"
                /\ UNCHANGED idx
           ELSE /\ idx' = idx + 1
                /\ UNCHANGED <<result, pc>>
    /\ UNCHANGED <<outerVars, features, application, compliance_nfs, compliance_cms, op,
                   public_inputs, compared, owned_resource_id, verifying_infos>>

\* AppVerifyDynamic that skips a dynamic logic whose evaluation fails instead
\* of returning its error.
AppVerifyDynamic_SkipsErr ==
    /\ pc = "loop"
    /\ op = "verify_transparently"
    /\ idx <= Len(application.dynamic_resource_logic_bytecode)
    /\ logic' = application.dynamic_resource_logic_bytecode[idx]
    /\ evaluated' = Append(evaluated, idx)
    /\ LET id == RLVerifyTransparently(features,
                                       application.dynamic_resource_logic_bytecode[idx],
                                       compliance_nfs, compliance_cms)
       IN  IF IsOk(id) /\ id.val # owned_resource_id
           THEN /\ result' = Err("InconsistentOwnedResourceID")
                /\ pc' = "done"
                /\ UNCHANGED idx
           ELSE /\ idx' = idx + 1
                /\ UNCHANGED <<result, pc>>
    /\ UNCHANGED <<outerVars, features, application, compliance_nfs, compliance_cms, op,
                   public_inputs, compared, owned_resource_id, verifying_infos>>

\* AppVerifyDynamic comparing only the first dynamic logic's id with
\* owned_resource_id.
AppVerifyDynamic_FirstIdOnly ==
    /\ pc = "loop"
    /\ op = "verify_transparently"
    /\ idx <= Len(application.dynamic_resource_logic_bytecode)
    /\ logic' = application.dynamic_resource_logic_bytecode[idx]
    /\ evaluated' = Append(evaluated, idx)
    /\ LET id == RLVerifyTransparently(features,
                                       application.dynamic_resource_logic_bytecode[idx],
                                       compliance_nfs, compliance_cms)
       IN  IF IsErr(id)
           THEN /\ result' = id
                /\ pc' = "done"
                /\ UNCHANGED idx
           ELSE IF idx = 1 /\ id.val # owned_resource_id
           THEN /\ result' = Err("InconsistentOwnedResourceID")
                /\ pc' = "done"
                /\ UNCHANGED idx
           ELSE /\ idx' = idx + 1
                /\ UNCHANGED <<result, pc>>
    /\ UNCHANGED <<outerVars, features, application, compliance_nfs, compliance_cms, op,
                   public_inputs, compared, owned_resource_id, verifying_infos>>

\* One iteration of: for dynamic_resource_logic in self.dynamic_resource_logic_bytecode.iter()
AppVerifyDynamic ==
    /\ pc = "loop"
    /\ op = "verify_transparently"
    /\ idx <= Len(application.dynamic_resource_logic_bytecode)
    /\ logic' = application.dynamic_resource_logic_bytecode[idx]
    /\ evaluated' = Append(evaluated, idx)
    /\ LET id == RLVerifyTransparently(features,
                                       application.dynamic_resource_logic_bytecode[idx],
                                       compliance_nfs, compliance_cms)
       IN  IF IsErr(id)
           THEN /\ result' = id
                /\ pc' = "done"
                /\ UNCHANGED idx
           ELSE IF id.val # owned_resource_id
           THEN /\ result' = Err("InconsistentOwnedResourceID")
                /\ pc' = "done"
                /\ UNCHANGED idx
           ELSE /\ idx' = idx + 1
                /\ UNCHANGED <<result, pc>>
    /\ UNCHANGED <<outerVars, features, application, compliance_nfs, compliance_cms, op,
                   public_inputs, compared, owned_resource_id, verifying_infos>>

\* AppVerifyReturn leaving the loop one element early.
AppVerifyReturn_Early ==
    /\ pc = "loop"
    /\ op = "verify_transparently"
    /\ idx >= Len(application.dynamic_resource_logic_bytecode)
    /\ result' = Ok(owned_resource_id)
    /\ pc' = "done"
    /\ UNCHANGED <<callVars, op, public_inputs, compared, appLocals>>

\* Ok(owned_resource_id)
AppVerifyReturn ==
    /\ pc = "loop"
    /\ op = "verify_transparently"
    /\ idx > Len(application.dynamic_resource_logic_bytecode)
    /\ result' = Ok(owned_resource_id)
    /\ pc' = "done"
    /\ UNCHANGED <<callVars, op, public_inputs, compared, appLocals>>

\* let app_resource_logic_verifying_info = self.app_resource_logic_bytecode.generate_proof()?;
AppGenerateMandatory ==
    /\ pc = "idle"
    /\ op' = "generate_proofs"
    /\ logic' = application.app_resource_logic_bytecode
    /\ evaluated' = <<0>>
    /\ LET r == GenerateProof(features, application.app_resource_logic_bytecode)
       IN  IF IsErr(r)
           THEN /\ result' = r
                /\ pc' = "done"
                /\ UNCHANGED <<verifying_infos, idx>>
           ELSE /\ verifying_infos' = <<r.val>>
                /\ idx' = 1
                /\ pc' = "collect"
                /\ UNCHANGED result
    /\ UNCHANGED <<outerVars, features, application, compliance_nfs, compliance_cms,
                   public_inputs, compared, owned_resource_id>>

\* AppGenerateDynamic collecting into a Vec of Results first: every remaining
\* dynamic logic is evaluated before the first error is returned.
AppGenerateDynamic_Eager ==
    /\ pc = "collect"
    /\ op = "generate_proofs"
    /\ idx <= Len(application.dynamic_resource_logic_bytecode)
    /\ logic' = application.dynamic_resource_logic_bytecode[idx]
    /\ LET r == GenerateProof(features, application.dynamic_resource_logic_bytecode[idx])
           n == Len(application.dynamic_resource_logic_bytecode)
       IN  IF IsErr(r)
           THEN /\ result' = r
                /\ pc' = "done"
                /\ evaluated' = evaluated \o [i \in 1 .. (n - idx + 1) |-> idx + i - 1]
                /\ UNCHANGED <<verifying_infos, idx>>
           ELSE /\ verifying_infos' = Append(verifying_infos, r.val)
                /\ idx' = idx + 1
                /\ evaluated' = Append(evaluated, idx)
                /\ UNCHANGED <<result, pc>>
    /\ UNCHANGED <<outerVars, features, application, compliance_nfs, compliance_cms, op,
                   public_inputs, compared, owned_resource_id>>

\* AppGenerateDynamic comparing the owned-resource-id of each dynamic logic's
\* public inputs with the mandatory logic's.
AppGenerateDynamic_WithIdCheck ==
    /\ pc = "collect"
    /\ op = "generate_proofs"
    /\ idx <= Len(application.dynamic_resource_logic_bytecode)
    /\ logic' = application.dynamic_resource_logic_bytecode[idx]
    /\ evaluated' = Append(evaluated, idx)
    /\ LET r == GenerateProof(features, application.dynamic_resource_logic_bytecode[idx])
       IN  IF IsErr(r)
           THEN /\ result' = r
                /\ pc' = "done"
                /\ UNCHANGED <<verifying_infos, idx>>
           ELSE IF OwnedResourceId(r.val.public_inputs)
                      # OwnedResourceId(Head(verifying_infos).public_inputs)
           THEN /\ result' = Err("InconsistentOwnedResourceID")
                /\ pc' = "done"
                /\ UNCHANGED <<verifying_infos, idx>>
           ELSE /\ verifying_infos' = Append(verifying_infos, r.val)
                /\ idx' = idx + 1
                /\ UNCHANGED <<result, pc>>
    /\ UNCHANGED <<outerVars, features, application, compliance_nfs, compliance_cms, op,
                   public_inputs, compared, owned_resource_id>>

\* One element of: .into_iter().map(|bytecode| bytecode.generate_proof()).collect()
\* into a Result, which stops at the first Err; the ? then returns it.
AppGenerateDynamic ==
    /\ pc = "collect"
    /\ op = "generate_proofs"
    /\ idx <= Len(application.dynamic_resource_logic_bytecode)
    /\ logic' = application.dynamic_resource_logic_bytecode[idx]
    /\ evaluated' = Append(evaluated, idx)
    /\ LET r == GenerateProof(features, application.dynamic_resource_logic_bytecode[idx])
       IN  IF IsErr(r)
           THEN /\ result' = r
                /\ pc' = "done"
                /\ UNCHANGED <<verifying_infos, idx>>
           ELSE /\ verifying_infos' = Append(verifying_infos, r.val)
                /\ idx' = idx + 1
                /\ UNCHANGED <<result, pc>>
    /\ UNCHANGED <<outerVars, features, application, compliance_nfs, compliance_cms, op,
                   public_inputs, compared, owned_resource_id>>

\* Ok(ResourceLogicVerifyingInfoSet::new(app info, dynamic infos))
AppGenerateReturn ==
    /\ pc = "collect"
    /\ op = "generate_proofs"
    /\ idx > Len(application.dynamic_resource_logic_bytecode)
    /\ result' = Ok([app_resource_logic_verifying_info |-> Head(verifying_infos),
                     app_dynamic_resource_logic_verifying_info |-> Tail(verifying_infos)])
    /\ pc' = "done"
    /\ UNCHANGED <<callVars, op, public_inputs, compared, appLocals>>

Next ==
    \/ AppVerifyMandatory
    \/ AppVerifyDynamic
    \/ AppVerifyReturn
    \/ AppGenerateMandatory
    \/ AppGenerateDynamic
    \/ AppGenerateReturn

Spec == Init /\ [][Next]_vars

TypeOKApp ==
    /\ features \subseteq Features
    /\ logic \in SampleLogics
    /\ pc \in {"idle", "loop", "collect", "done"}
    /\ idx \in 0 .. (MaxDynamic + 1)
    /\ owned_resource_id \in Field
    /\ result.kind \in {"None", "Ok", "Err"}
    /\ (pc = "done") = (result.kind # "None")

(***************************************************************************)
(* Properties of one resource logic (checked under SpecLogic).             *)
(***************************************************************************)
\* The nullifier-1, nullifier-2 public inputs the logic declares.
LogicNfs ==
    <<logic.inputs.public_inputs[RESOURCE_LOGIC_CIRCUIT_NULLIFIER_ONE_PUBLIC_INPUT_IDX],
      logic.inputs.public_inputs[RESOURCE_LOGIC_CIRCUIT_NULLIFIER_TWO_PUBLIC_INPUT_IDX]>>

\* The commitment-1, commitment-2 public inputs the logic declares.
LogicCms ==
    <<logic.inputs.public_inputs[RESOURCE_LOGIC_CIRCUIT_OUTPUT_CM_ONE_PUBLIC_INPUT_IDX],
      logic.inputs.public_inputs[RESOURCE_LOGIC_CIRCUIT_OUTPUT_CM_TWO_PUBLIC_INPUT_IDX]>>

\* a equals b in the identity pairing or in the swapped pairing.
Paired(a, b) == a = b \/ a = <<b[2], b[1]>>

\* The tag of the logic has no match arm in this build.
TagMissing(bytecode_) ==
    \/ bytecode_.circuit = "Trivial" /\ "borsh" \notin features
    \/ bytecode_.circuit \in ExampleTags /\ "examples" \notin features

\* C1: once the nullifier check of verify_transparently has been evaluated, it
\* has passed (the call went on to the commitment check) exactly when the
\* compliance nullifiers equal the logic's nullifier-1, nullifier-2 in the
\* identity or the swapped pairing; in every other case the call has returned
\* InconsistentNullifier.
C1_NullifierPairing ==
    (op = "verify_transparently" /\ "nfs" \in compared) =>
        IF Paired(compliance_nfs, LogicNfs)
        THEN /\ result # Err("InconsistentNullifier")
             /\ pc = "check_cms" \/ "cms" \in compared
        ELSE /\ pc = "done"
             /\ result = Err("InconsistentNullifier")

\* C1 witness: the check passed through the swapped pairing of two different
\* nullifiers.
C1_Witness ==
    /\ op = "verify_transparently"
    /\ pc = "check_cms"
    /\ "nfs" \in compared
    /\ compliance_nfs[1] # compliance_nfs[2]
    /\ compliance_nfs = <<LogicNfs[2], LogicNfs[1]>>

\* C2: the commitment check is evaluated only after the nullifier check has
\* passed; once evaluated, the call has returned, with Ok exactly when the
\* compliance commitments equal the logic's commitment-1, commitment-2 in the
\* identity or the swapped pairing, and with
\* InconsistentOutputResourceCommitment in every other case.
C2_CommitmentPairing ==
    (op = "verify_transparently" /\ "cms" \in compared) =>
        /\ "nfs" \in compared
        /\ Paired(compliance_nfs, LogicNfs)
        /\ pc = "done"
        /\ IF Paired(compliance_cms, LogicCms)
           THEN IsOk(result)
           ELSE result = Err("InconsistentOutputResourceCommitment")

\* C2 witness: the nullifiers matched and the commitments matched in neither
\* pairing although one commitment is shared.
C2_Witness ==
    /\ op = "verify_transparently"
    /\ "cms" \in compared
    /\ LogicCms[1] = compliance_cms[1]
    /\ LogicCms[2] # compliance_cms[2]
    /\ result = Err("InconsistentOutputResourceCommitment")

\* C3: the identity-or-swapped test is unordered-pair equality, also when
\* values repeat: the nullifier check passes iff the set of the two compliance
\* nullifiers equals the set of the logic's two nullifiers, and the commitment
\* check passes iff the two sets of commitments are equal.
C3_UnorderedPairEquality ==
    /\ (op = "verify_transparently" /\ "nfs" \in compared) =>
          ((result # Err("InconsistentNullifier"))
             <=> ({compliance_nfs[1], compliance_nfs[2]} = {LogicNfs[1], LogicNfs[2]}))
    /\ (op = "verify_transparently" /\ "cms" \in compared) =>
          (IsOk(result)
             <=> ({compliance_cms[1], compliance_cms[2]} = {LogicCms[1], LogicCms[2]}))

\* C3 witness: a repeated compliance nullifier that is one of the logic's two
\* different nullifiers is rejected.
C3_Witness ==
    /\ op = "verify_transparently"
    /\ "nfs" \in compared
    /\ compliance_nfs[1] = compliance_nfs[2]
    /\ LogicNfs[1] # LogicNfs[2]
    /\ compliance_nfs[1] \in {LogicNfs[1], LogicNfs[2]}
    /\ result = Err("InconsistentNullifier")

\* C6: when both binding checks pass, verify_transparently of one logic
\* returns the value of the owned-resource-id slot of the logic's public
\* inputs; and a single logic's result is never InconsistentOwnedResourceID.
C6_ReturnsOwnedResourceIdSlot ==
    op = "verify_transparently" =>
        /\ result # Err("InconsistentOwnedResourceID")
        /\ (/\ pc = "done"
            /\ compared = {"nfs", "cms"}
            /\ Paired(compliance_nfs, LogicNfs)
            /\ Paired(compliance_cms, LogicCms))
           => result =
                Ok(logic.inputs.public_inputs[
                      RESOURCE_LOGIC_CIRCUIT_OWNED_RESOURCE_ID_PUBLIC_INPUT_IDX])

\* C6 witness: a successful call whose id is none of the nullifiers and
\* commitments of the logic.
C6_Witness ==
    /\ op = "verify_transparently"
    /\ pc = "done"
    /\ IsOk(result)
    /\ result.val \notin {LogicNfs[1], LogicNfs[2], LogicCms[1], LogicCms[2]}

\* C7: for a bytecode whose tag is not compiled into the build, generate_proof
\* and verify_transparently return InvalidResourceLogicRepresentation, and
\* verify_transparently never reaches the nullifier or the commitment
\* comparison, whatever the compliance data.
C7_InvalidRepresentation ==
    TagMissing(logic) =>
        /\ pc \in {"idle", "done"}
        /\ compared = {}
        /\ pc = "done" => result = Err("InvalidResourceLogicRepresentation")

\* C7 witness: verify_transparently of a Trivial bytecode in a build with the
\* examples feature and without borsh, whose pairs would have matched.
C7_Witness ==
    /\ op = "verify_transparently"
    /\ pc = "done"
    /\ logic.circuit = "Trivial"
    /\ features = {"examples"}
    /\ logic.inputs.satisfied
    /\ Paired(compliance_nfs, LogicNfs)
    /\ Paired(compliance_cms, LogicCms)
    /\ result = Err("InvalidResourceLogicRepresentation")

(***************************************************************************)
(* Properties of the aggregator (checked under Spec).                      *)
(***************************************************************************)
NumDynamic == Len(application.dynamic_resource_logic_bytecode)

\* The k-th logic in evaluation order: 0 the mandatory one, k the k-th dynamic.
LogicAt(k) ==
    IF k = 0
    THEN application.app_resource_logic_bytecode
    ELSE application.dynamic_resource_logic_bytecode[k]

\* What the k-th logic returns when verified on its own.
VerifiedAlone(k) ==
    RLVerifyTransparently(features, LogicAt(k), compliance_nfs, compliance_cms)

\* What the k-th logic returns when proved on its own.
ProvedAlone(k) == GenerateProof(features, LogicAt(k))

\* The owned-resource-id the k-th logic declares in its public inputs.
DeclaredId(k) ==
    LogicAt(k).inputs.public_inputs[RESOURCE_LOGIC_CIRCUIT_OWNED_RESOURCE_ID_PUBLIC_INPUT_IDX]

\* The k-th logic passes dispatch and the binding check.
Passes(k) == IsOk(VerifiedAlone(k))

\* The sequence <<0, 1, ..., k>>.
UpTo(k) == [i \in 1 .. (k + 1) |-> i - 1]

\* The mandatory logic passes, and the dynamic logic k passes and reports
\* another id than the mandatory logic.
Differs(k) == Passes(0) /\ Passes(k) /\ DeclaredId(k) # DeclaredId(0)

\* C4 as stated: whenever a dynamic logic's owned-resource-id differs from
\* the mandatory logic's, verify_transparently has failed with
\* InconsistentOwnedResourceID.
C4_AsStated ==
    (pc = "done" /\ op = "verify_transparently") =>
        \A k \in 1 .. NumDynamic :
            Differs(k) => result = Err("InconsistentOwnedResourceID")

\* C4 amended: whenever a dynamic logic's owned-resource-id differs from the
\* mandatory logic's, verify_transparently fails; the error is
\* InconsistentOwnedResourceID when every dynamic logic before it passes
\* dispatch and the binding check, and otherwise it is the error of the first
\* dynamic logic that does not pass.
C4_DivergentIdFails ==
    (pc = "done" /\ op = "verify_transparently") =>
        \A k \in 1 .. NumDynamic :
            Differs(k) =>
                /\ IsErr(result)
                /\ (\A j \in 1 .. (k - 1) : Passes(j))
                      => result = Err("InconsistentOwnedResourceID")
                /\ \A j \in 1 .. (k - 1) :
                      (~Passes(j) /\ \A i \in 1 .. (j - 1) : Passes(i) /\ ~Differs(i))
                          => result = VerifiedAlone(j)

\* C4 witness: the second of two dynamic logics reports another id while the
\* first agrees with the mandatory logic, and the call returned
\* InconsistentOwnedResourceID.
C4_Witness ==
    /\ pc = "done"
    /\ op = "verify_transparently"
    /\ NumDynamic = 2
    /\ Passes(1)
    /\ ~Differs(1)
    /\ Differs(2)
    /\ result = Err("InconsistentOwnedResourceID")

\* Every logic passes dispatch and the binding check and all declare the
\* same owned-resource-id.
AllPassWithOneId ==
    \A k \in 0 .. NumDynamic : Passes(k) /\ DeclaredId(k) = DeclaredId(0)

\* C5: ApplicationByteCode.verify_transparently returns Ok exactly when the
\* mandatory logic and every dynamic logic pass dispatch and the binding check
\* and all report the same owned-resource-id, and the value returned is then
\* that id.
C5_OkIffAllAgree ==
    (pc = "done" /\ op = "verify_transparently") =>
        /\ AllPassWithOneId => result = Ok(DeclaredId(0))
        /\ IsOk(result) => AllPassWithOneId

\* C5 witness: a successful call over a mandatory and two dynamic logics with
\* an id other than 0.
C5_Witness ==
    /\ pc = "done"
    /\ op = "verify_transparently"
    /\ NumDynamic = 2
    /\ IsOk(result)
    /\ result.val # 0

\* The k-th step of the running method fails: the logic's own evaluation
\* fails or, in verify_transparently, a dynamic logic's id is not the
\* mandatory logic's.
StepFails(k) ==
    IF op = "generate_proofs"
    THEN IsErr(ProvedAlone(k))
    ELSE \/ ~Passes(k)
         \/ k > 0 /\ Passes(0) /\ DeclaredId(k) # DeclaredId(0)

\* The error of the failing k-th step.
StepError(k) ==
    IF op = "generate_proofs"
    THEN ProvedAlone(k)
    ELSE IF ~Passes(k) THEN VerifiedAlone(k) ELSE Err("InconsistentOwnedResourceID")

\* C8: generate_proofs and verify_transparently short-circuit: a returned
\* error is that of the first failing logic in evaluation order (the mandatory
\* logic, then the dynamic logics in list order), exactly the logics up to and
\* including it have been evaluated, and the value returned is the error
\* alone, with no verifying info and no id.
C8_ShortCircuit ==
    (pc = "done" /\ IsErr(result)) =>
        \E f \in 0 .. NumDynamic :
            /\ StepFails(f)
            /\ \A j \in 0 .. (f - 1) : ~StepFails(j)
            /\ result = StepError(f)
            /\ evaluated = UpTo(f)
            /\ DOMAIN result = {"kind", "err"}

\* C8 witness: generate_proofs failed at the first of two dynamic logics and
\* the second was never evaluated.
C8_Witness ==
    /\ pc = "done"
    /\ op = "generate_proofs"
    /\ NumDynamic = 2
    /\ IsErr(result)
    /\ evaluated = <<0, 1>>
    /\ IsErr(ProvedAlone(2))

\* C9 as stated: generate_proofs fails with InconsistentOwnedResourceID when
\* the owned-resource-ids of its logics are not all identical (here even with
\* every logic proved successfully).
C9_AsStated ==
    (/\ pc = "done"
     /\ op = "generate_proofs"
     /\ \A k \in 0 .. NumDynamic : IsOk(ProvedAlone(k))
     /\ \E k \in 1 .. NumDynamic : DeclaredId(k) # DeclaredId(0))
        => result = Err("InconsistentOwnedResourceID")

\* C9 amended: generate_proofs runs generate_proof once for the mandatory
\* logic and once per dynamic logic, in list order, and collects each
\* verifying info; it runs no binding check and compares no owned-resource-id:
\* the only error it returns is InvalidResourceLogicRepresentation, and when
\* every tag is compiled in it returns Ok with one verifying info per logic,
\* also when the ids differ or the pairs do not match the compliance data.
C9_GenerateProofsCollectsOnly ==
    (pc = "done" /\ op = "generate_proofs") =>
        /\ IsErr(result) =>
              /\ result = Err("InvalidResourceLogicRepresentation")
              /\ \E k \in 0 .. NumDynamic : TagMissing(LogicAt(k))
        /\ (\A k \in 0 .. NumDynamic : ~TagMissing(LogicAt(k))) =>
              /\ evaluated = UpTo(NumDynamic)
              /\ result =
                    Ok([app_resource_logic_verifying_info |->
                            GetVerifyingInfo(LogicAt(0)),
                        app_dynamic_resource_logic_verifying_info |->
                            [k \in 1 .. NumDynamic |-> GetVerifyingInfo(LogicAt(k))]])

\* C9 witness: generate_proofs returned Ok for logics whose ids differ and
\* whose verification on their own fails.
C9_Witness ==
    /\ pc = "done"
    /\ op = "generate_proofs"
    /\ IsOk(result)
    /\ NumDynamic = 2
    /\ DeclaredId(1) # DeclaredId(0)
    /\ ~Passes(2)

\* C10 as stated: the aggregation decides consistency, success or
\* InconsistentOwnedResourceID, only after the outputs of all logics of the
\* resource have been produced.
C10_AsStated ==
    (/\ pc = "done"
     /\ op = "verify_transparently"
     /\ IsOk(result) \/ result = Err("InconsistentOwnedResourceID"))
        => evaluated = UpTo(NumDynamic)

\* C10 amended: success is decided only after all logics of the resource
\* have been evaluated; InconsistentOwnedResourceID is decided inside the
\* loop, right after the first dynamic logic whose id differs from the
\* mandatory logic's has been evaluated and before any later logic is; each
\* dynamic id is compared once, when it is produced, so that every id seen
\* while the loop runs equals the mandatory one.
C10_ComparesInsideLoop ==
    op = "verify_transparently" =>
        /\ (pc = "done" /\ IsOk(result)) => evaluated = UpTo(NumDynamic)
        /\ pc = "loop" =>
              /\ evaluated = UpTo(idx - 1)
              /\ \A j \in 0 .. (idx - 1) : VerifiedAlone(j) = Ok(owned_resource_id)
        /\ (pc = "done" /\ result = Err("InconsistentOwnedResourceID")) =>
              \E k \in 1 .. NumDynamic :
                  /\ evaluated = UpTo(k)
                  /\ Differs(k)
                  /\ \A j \in 0 .. (k - 1) : VerifiedAlone(j) = Ok(owned_resource_id)

\* C10 witness: InconsistentOwnedResourceID was returned after the first of
\* two dynamic logics, the second not evaluated.
C10_Witness ==
    /\ pc = "done"
    /\ op = "verify_transparently"
    /\ NumDynamic = 2
    /\ evaluated = <<0, 1>>
    /\ result = Err("InconsistentOwnedResourceID")

(***************************************************************************)
(* Proof generation as a parallel map: one task per logic of the          *)
(* application, the mandatory logic being task 0 and the k-th dynamic      *)
(* logic task k.  Every task borrows the application immutably (&self),    *)
(* calls generate_proof on its own bytecode and writes its own slot; the   *)
(* join reads the slots in list order.                                     *)
(***************************************************************************)
\* The iterator of generate_proofs collecting into a Result: the verifying
\* infos of the logics in list order, or the first error.
RECURSIVE CollectVerifyingInfos(_, _)
CollectVerifyingInfos(features_, bytecodes_) ==
    IF bytecodes_ = <<>>
    THEN Ok(<<>>)
    ELSE LET r == GenerateProof(features_, Head(bytecodes_))
         IN  IF IsErr(r)
             THEN r
             ELSE LET rest == CollectVerifyingInfos(features_, Tail(bytecodes_))
                  IN  IF IsErr(rest) THEN rest ELSE Ok(<<r.val>> \o rest.val)

\* ApplicationByteCode::generate_proofs executed sequentially.
GenerateProofs(features_, application_) ==
    LET app == GenerateProof(features_, application_.app_resource_logic_bytecode)
    IN  IF IsErr(app)
        THEN app
        ELSE LET dyn == CollectVerifyingInfos(features_,
                                              application_.dynamic_resource_logic_bytecode)
             IN  IF IsErr(dyn)
                 THEN dyn
                 ELSE Ok([app_resource_logic_verifying_info |-> app.val,
                          app_dynamic_resource_logic_verifying_info |-> dyn.val])

\* The logics the parallel map is run on: proving ignores whether the witness
\* satisfies the binding, so the sample logics without a defect suffice.
ProvableLogics == {b \in SampleLogics : Defects(b) = 0}

ProvableLists == UNION {[1 .. n -> ProvableLogics] : n \in 0 .. MaxDynamic}

InitParallel ==
    /\ features \in SUBSET Features
    /\ application \in
          {ApplicationByteCode_new(a, d) : a \in ProvableLogics, d \in ProvableLists}
    /\ logic = application.app_resource_logic_bytecode
    /\ compliance_nfs = <<0, 0>>
    /\ compliance_cms = <<0, 0>>
    /\ InitLocals

\* The tasks are spawned: one empty slot per logic.
ParSpawn ==
    /\ pc = "idle"
    /\ op' = "generate_proofs"
    /\ verifying_infos' =
          [k \in 1 .. (Len(application.dynamic_resource_logic_bytecode) + 1) |-> NoResult]
    /\ pc' = "tasks"
    /\ UNCHANGED <<callVars, public_inputs, compared, owned_resource_id, idx,
                   evaluated, result>>

\* ParGenerateProof pushing each result onto a shared Vec as its task finishes.
ParGenerateProof_CompletionOrder ==
    /\ pc = "tasks"
    /\ \E k \in 0 .. Len(application.dynamic_resource_logic_bytecode) :
          /\ \A i \in 1 .. Len(evaluated) : evaluated[i] # k
          /\ logic' = (IF k = 0
                       THEN application.app_resource_logic_bytecode
                       ELSE application.dynamic_resource_logic_bytecode[k])
          /\ evaluated' = Append(evaluated, k)
          /\ verifying_infos' =
                [verifying_infos EXCEPT ![Len(evaluated) + 1] = GenerateProof(features, logic')]
    /\ UNCHANGED <<outerVars, features, application, compliance_nfs, compliance_cms, op, pc,
                   public_inputs, compared, owned_resource_id, idx, result>>

\* One task runs bytecode.generate_proof() on its own logic, whichever task
\* the scheduler picks, and stores the result in the slot of that logic.
ParGenerateProof ==
    /\ pc = "tasks"
    /\ \E k \in 0 .. Len(application.dynamic_resource_logic_bytecode) :
          /\ \A i \in 1 .. Len(evaluated) : evaluated[i] # k
          /\ logic' = (IF k = 0
                       THEN application.app_resource_logic_bytecode
                       ELSE application.dynamic_resource_logic_bytecode[k])
          /\ evaluated' = Append(evaluated, k)
          /\ verifying_infos' =
                [verifying_infos EXCEPT ![k + 1] = GenerateProof(features, logic')]
    /\ UNCHANGED <<outerVars, features, application, compliance_nfs, compliance_cms, op, pc,
                   public_inputs, compared, owned_resource_id, idx, result>>

\* The join: the first error in list order, or the set of verifying infos.
ParJoin ==
    /\ pc = "tasks"
    /\ Len(evaluated) = Len(verifying_infos)
    /\ LET failed == {k \in 1 .. Len(verifying_infos) : IsErr(verifying_infos[k])}
       IN  IF failed # {}
           THEN result' = verifying_infos[CHOOSE k \in failed : \A j \in failed : k <= j]
           ELSE result' =
                   Ok([app_resource_logic_verifying_info |-> verifying_infos[1].val,
                       app_dynamic_resource_logic_verifying_info |->
                           [k \in 1 .. (Len(verifying_infos) - 1) |->
                               verifying_infos[k + 1].val]])
    /\ pc' = "done"
    /\ UNCHANGED <<callVars, op, public_inputs, compared, appLocals>>

NextParallel ==
    \/ ParSpawn
    \/ ParGenerateProof
    \/ ParJoin

SpecParallel == InitParallel /\ [][NextParallel]_vars

GenerateProofsAgrees ==
    (pc = "done" /\ op = "generate_proofs") => result = GenerateProofs(features, application)

(***************************************************************************)
(* The partial-fulfillment intent circuit:                                 *)
(* PartialFulfillmentIntentLabel::is_partial_fulfillment_checks, one step  *)
(* per gadget region.  A circuit is satisfied when no constraint of its    *)
(* regions is left unsatisfied.                                            *)
(***************************************************************************)
\* The largest token quantity of the sampled orders.
MaxQuantity == 5

Quantities == 0 .. MaxQuantity

IsPrime(n_) == n_ > 1 /\ \A d \in 2 .. (n_ - 1) : n_ % d # 0

\* The side of the Sudoku grid, [[u8; 9]; 9], and of its small squares.
SudokuSize == 9

SquareSize == 3

\* A blank cell i is replaced by BlankOffset + i.
BlankOffset == 10

\* The values below which the field must not wrap around: the sum of two
\* products of sampled quantities, and the replacement of the last blank cell.
FieldFloor ==
    IF 2 * MaxQuantity * MaxQuantity > BlankOffset + SudokuSize * SudokuSize
    THEN 2 * MaxQuantity * MaxQuantity
    ELSE BlankOffset + SudokuSize * SudokuSize

\* pallas::Base is a prime field so large that neither a product of two u64
\* quantities, nor the sum of two such products, nor a cell of a grid wraps
\* around; here the least prime with that property for the sampled values.
FieldModulus ==
    CHOOSE p \in (FieldFloor + 1) .. (2 * FieldFloor + 2) :
        /\ IsPrime(p)
        /\ \A q \in (FieldFloor + 1) .. (p - 1) : ~IsPrime(q)

\* SubInstructions::sub: the cell holding a - b.
Sub(a_, b_) == (a_ - b_ + FieldModulus) % FieldModulus

\* MulInstructions::mul: the cell holding a * b.
Mul(a_, b_) == (a_ * b_) % FieldModulus

\* A conditional-equal gate that is enabled only by the flag 1.
ConditionalEqual_OnlyWhenOne(flag_, lhs_, rhs_) == flag_ = 1 => lhs_ = rhs_

\* The conditional-equal gate: flag * (lhs - rhs) == 0.
ConditionalEqual(flag_, lhs_, rhs_) == Mul(flag_, Sub(lhs_, rhs_)) = 0

\* ConditionalEqualConfig::assign_region: the flag, lhs and rhs copied into one
\* row; the region is named in unsatisfied_ when its gate does not hold.
AssignRegion(unsatisfied_, name_, flag_, lhs_, rhs_) ==
    IF ConditionalEqual(flag_, lhs_, rhs_) THEN unsatisfied_ ELSE unsatisfied_ \cup {name_}

\* The label of the sampled orders: the token logic, the sold token, the
\* receiver's npk and value are compared for equality only and fixed to 1.
PartialFulfillmentIntentLabel ==
    [token_resource_logic_vk : {1},
     sold_token : {1},
     sold_token_quantity : Quantities,
     bought_token : {0},
     bought_token_quantity : Quantities,
     receiver_npk : {1},
     receiver_value : {1}]

\* The fields of ResourceVariables the checks read.
ResourceVariables ==
    [logic : {0, 1}, label : {0, 1}, npk : {0, 1}, value : {0, 1}, quantity : Quantities]

\* Output resource 0 is the bought token sent to the receiver; output
\* resource 1 is any resource.
InitIntent ==
    /\ witness \in
          [label : PartialFulfillmentIntentLabel,
           is_input_resource : {0, 1},
           output_resource_variables :
               {[i \in 0 .. 1 |-> IF i = 0 THEN r0 ELSE r1] :
                   r0 \in {r \in ResourceVariables :
                              /\ r.logic = 1
                              /\ r.label = 0
                              /\ r.npk = 1
                              /\ r.value = 1},
                   r1 \in ResourceVariables}]
    /\ cells = <<>>
    /\ unsatisfied = {}
    /\ transaction = <<>>
    /\ position = <<>>
    /\ tx_result = NoResult
    /\ pc = "idle"
    /\ op = "is_partial_fulfillment_checks"
    /\ features = Features
    /\ logic = <<>>
    /\ application = <<>>
    /\ compliance_nfs = <<>>
    /\ compliance_cms = <<>>
    /\ public_inputs = <<>>
    /\ compared = {}
    /\ owned_resource_id = 0
    /\ idx = 0
    /\ verifying_infos = <<>>
    /\ evaluated = <<>>
    /\ result = NoResult

bytecodeVars ==
    <<features, logic, application, compliance_nfs, compliance_cms, op,
      public_inputs, compared, owned_resource_id, idx, verifying_infos,
      evaluated, result, txVars>>

\* The flag with the difference of the bought quantities left out.
PFFlag_InputOnly ==
    /\ pc = "idle"
    /\ cells' = [bought_token_quantity_sub |->
                    Sub(witness.label.bought_token_quantity,
                        witness.output_resource_variables[0].quantity),
                 is_partial_fulfillment |-> witness.is_input_resource]
    /\ pc' = "returned_vk"
    /\ UNCHANGED <<bytecodeVars, witness, unsatisfied>>

\* is_partial_fulfillment =
\*     is_input_resource * (bought_token_quantity - output 0 quantity)
PFFlag ==
    /\ pc = "idle"
    /\ LET d == Sub(witness.label.bought_token_quantity,
                    witness.output_resource_variables[0].quantity)
       IN  cells' = [bought_token_quantity_sub |-> d,
                     is_partial_fulfillment |-> Mul(witness.is_input_resource, d)]
    /\ pc' = "returned_vk"
    /\ UNCHANGED <<bytecodeVars, witness, unsatisfied>>

\* conditional equal: check returned token vk
PFReturnedVk ==
    /\ pc = "returned_vk"
    /\ LET row == <<cells.is_partial_fulfillment,
                    witness.label.token_resource_logic_vk,
                    witness.output_resource_variables[1].logic>>
       IN  /\ cells' = cells @@ [returned_vk |-> row]
           /\ unsatisfied' = AssignRegion(unsatisfied, "returned_vk", row[1], row[2], row[3])
    /\ pc' = "returned_label"
    /\ UNCHANGED <<bytecodeVars, witness>>

\* conditional equal: check returned token label
PFReturnedLabel ==
    /\ pc = "returned_label"
    /\ LET row == <<cells.is_partial_fulfillment,
                    witness.label.sold_token,
                    witness.output_resource_variables[1].label>>
       IN  /\ cells' = cells @@ [returned_label |-> row]
           /\ unsatisfied' = AssignRegion(unsatisfied, "returned_label", row[1], row[2], row[3])
    /\ pc' = "returned_npk"
    /\ UNCHANGED <<bytecodeVars, witness>>

\* PFReturnedNpk comparing receiver_npk with the value of output resource 1.
PFReturnedNpk_ReadsValue ==
    /\ pc = "returned_npk"
    /\ LET row == <<cells.is_partial_fulfillment,
                    witness.label.receiver_npk,
                    witness.output_resource_variables[1].value>>
       IN  /\ cells' = cells @@ [returned_npk |-> row]
           /\ unsatisfied' = AssignRegion(unsatisfied, "returned_npk", row[1], row[2], row[3])
    /\ pc' = "returned_value"
    /\ UNCHANGED <<bytecodeVars, witness>>

\* conditional equal: check returned token npk
PFReturnedNpk ==
    /\ pc = "returned_npk"
    /\ LET row == <<cells.is_partial_fulfillment,
                    witness.label.receiver_npk,
                    witness.output_resource_variables[1].npk>>
       IN  /\ cells' = cells @@ [returned_npk |-> row]
           /\ unsatisfied' = AssignRegion(unsatisfied, "returned_npk", row[1], row[2], row[3])
    /\ pc' = "returned_value"
    /\ UNCHANGED <<bytecodeVars, witness>>

\* conditional equal: check returned token value
PFReturnedValue ==
    /\ pc = "returned_value"
    /\ LET row == <<cells.is_partial_fulfillment,
                    witness.label.receiver_value,
                    witness.output_resource_variables[1].value>>
       IN  /\ cells' = cells @@ [returned_value |-> row]
           /\ unsatisfied' = AssignRegion(unsatisfied, "returned_value", row[1], row[2], row[3])
    /\ pc' = "quantity"
    /\ UNCHANGED <<bytecodeVars, witness>>

\* The quantity check with the returned quantity taken for the sold one.
PFQuantity_ReturnedAsSold ==
    /\ pc = "quantity"
    /\ LET actual_sold_quantity == witness.output_resource_variables[1].quantity
           expected_bought_mul_actual_sold_quantity ==
               Mul(witness.label.bought_token_quantity, actual_sold_quantity)
           expected_sold_mul_actual_bought_quantity ==
               Mul(witness.label.sold_token_quantity,
                   witness.output_resource_variables[0].quantity)
           row == <<cells.is_partial_fulfillment,
                    expected_bought_mul_actual_sold_quantity,
                    expected_sold_mul_actual_bought_quantity>>
       IN  /\ cells' = cells @@ [actual_sold_quantity |-> actual_sold_quantity,
                                 quantity |-> row]
           /\ unsatisfied' = AssignRegion(unsatisfied, "quantity", row[1], row[2], row[3])
    /\ result' = Ok(<<>>)
    /\ pc' = "done"
    /\ UNCHANGED <<features, logic, application, compliance_nfs, compliance_cms, op,
                   public_inputs, compared, appLocals, witness, txVars>>

\* quantity check: conditional equal of
\*     expected_bought_quantity * actual_sold_quantity and
\*     expected_sold_quantity * actual_bought_quantity,
\* where actual_sold_quantity = expected_sold_quantity - returned_quantity;
\* then Ok(()).
PFQuantity ==
    /\ pc = "quantity"
    /\ LET actual_sold_quantity ==
               Sub(witness.label.sold_token_quantity,
                   witness.output_resource_variables[1].quantity)
           expected_bought_mul_actual_sold_quantity ==
               Mul(witness.label.bought_token_quantity, actual_sold_quantity)
           expected_sold_mul_actual_bought_quantity ==
               Mul(witness.label.sold_token_quantity,
                   witness.output_resource_variables[0].quantity)
           row == <<cells.is_partial_fulfillment,
                    expected_bought_mul_actual_sold_quantity,
                    expected_sold_mul_actual_bought_quantity>>
       IN  /\ cells' = cells @@ [actual_sold_quantity |-> actual_sold_quantity,
                                 quantity |-> row]
           /\ unsatisfied' = AssignRegion(unsatisfied, "quantity", row[1], row[2], row[3])
    /\ result' = Ok(<<>>)
    /\ pc' = "done"
    /\ UNCHANGED <<features, logic, application, compliance_nfs, compliance_cms, op,
                   public_inputs, compared, appLocals, witness, txVars>>

NextIntent ==
    \/ PFFlag
    \/ PFReturnedVk
    \/ PFReturnedLabel
    \/ PFReturnedNpk
    \/ PFReturnedValue
    \/ PFQuantity

SpecIntent == InitIntent /\ [][NextIntent]_vars

\* The conditional-equal regions assigned so far.
ConditionalEqualRegions ==
    {"returned_vk", "returned_label", "returned_npk", "returned_value", "quantity"}
        \cap DOMAIN cells

\* The order's quantities: S sold, B bought, b received, s actually sold.
SoldS == witness.label.sold_token_quantity

BoughtB == witness.label.bought_token_quantity

ActualB == witness.output_resource_variables[0].quantity

Returned == witness.output_resource_variables[1].quantity

Satisfied == pc = "done" /\ unsatisfied = {}

(***************************************************************************)
(* Properties of the partial-fulfillment checks (checked under SpecIntent).*)
(***************************************************************************)
\* C13 as stated: a conditional-equal region forces lhs = rhs when its flag is
\* the element 1 and holds for all lhs and rhs under every other flag.
C13_AsStated ==
    \A n \in ConditionalEqualRegions :
        LET flag == cells[n][1]
            lhs == cells[n][2]
            rhs == cells[n][3]
        IN  /\ flag = 1 => ((n \notin unsatisfied) <=> lhs = rhs)
            /\ flag # 1 => n \notin unsatisfied

\* C13: a conditional-equal region constrains flag * (lhs - rhs) == 0 in the
\* field: lhs and rhs are forced equal under every non-zero flag, and the
\* constraint holds for all lhs and rhs only under the flag 0.
C13_NonZeroFlagForcesEqual ==
    \A n \in ConditionalEqualRegions :
        LET flag == cells[n][1]
            lhs == cells[n][2]
            rhs == cells[n][3]
        IN  /\ (n \notin unsatisfied) <=> (flag * (lhs - rhs)) % FieldModulus = 0
            /\ flag # 0 => ((n \notin unsatisfied) <=> lhs = rhs)
            /\ flag = 0 => n \notin unsatisfied

\* C13 witness: the returned-vk region was assigned with a flag that is neither
\* 0 nor 1 and with different lhs and rhs, and its constraint does not hold.
C13_Witness ==
    /\ "returned_vk" \in DOMAIN cells
    /\ cells.returned_vk[1] \notin {0, 1}
    /\ cells.returned_vk[2] # cells.returned_vk[3]
    /\ "returned_vk" \in unsatisfied

\* C14: a consumed intent that is partially filled satisfies the checks only
\* if B * s == S * b, s being S minus the quantity of output resource 1; the
\* fill s = 2, b = 3 of a 5-for-5 order fails and the fill s = 2, b = 2 with
\* the remainder returned to the receiver passes.
C14_RatioOfPartialFill ==
    (pc = "done" /\ witness.is_input_resource = 1 /\ ActualB # BoughtB) =>
        /\ unsatisfied = {} =>
              /\ Mul(BoughtB, Sub(SoldS, Returned)) = Mul(SoldS, ActualB)
              /\ Returned <= SoldS => BoughtB * (SoldS - Returned) = SoldS * ActualB
        /\ (SoldS = 5 /\ BoughtB = 5 /\ Returned = 3 /\ ActualB = 3) =>
              "quantity" \in unsatisfied
        /\ (SoldS = 5 /\ BoughtB = 5 /\ Returned = 3 /\ ActualB = 2) =>
              /\ "quantity" \notin unsatisfied
              /\ witness.output_resource_variables[1] =
                     [logic |-> 1, label |-> 1, npk |-> 1, value |-> 1, quantity |-> 3]
                  => unsatisfied = {}

\* C14 witness: the 5-for-5 order consumed and filled with s = 2, b = 2, the
\* remaining 3 returned to the receiver, and every constraint holds.
C14_Witness ==
    /\ Satisfied
    /\ witness.is_input_resource = 1
    /\ SoldS = 5 /\ BoughtB = 5 /\ Returned = 3 /\ ActualB = 2

\* C15: the flag is is_input_resource * (B - actual_b); when the intent is
\* fully fulfilled or is being created the flag is 0 and no constraint
\* restricts output resource 1, whatever that resource is.
C15_FullFulfillmentUnconstrained ==
    pc = "done" =>
        /\ cells.is_partial_fulfillment =
              (witness.is_input_resource * (BoughtB - ActualB) + FieldModulus) % FieldModulus
        /\ (witness.is_input_resource = 0 \/ ActualB = BoughtB) =>
              /\ cells.is_partial_fulfillment = 0
              /\ unsatisfied = {}

\* C15 witness: the 5-for-5 order consumed and fully fulfilled (s = 5, b = 5),
\* output resource 1 being no leftover resource of the order, and every
\* constraint holds.
C15_Witness ==
    /\ Satisfied
    /\ witness.is_input_resource = 1
    /\ SoldS = 5 /\ BoughtB = 5 /\ Returned = 0 /\ ActualB = 5
    /\ witness.output_resource_variables[1] =
           [logic |-> 0, label |-> 0, npk |-> 0, value |-> 0, quantity |-> 0]

(***************************************************************************)
(* The example transactions: create_transaction of                         *)
(* cascaded_partial_transactions.rs and                                    *)
(* create_token_swap_intent_transaction of token_swap_with_intent.rs, and  *)
(* their execution logic by logic.  A resource is its name and the nonce   *)
(* it was given; nullifiers and commitments are injective in the resource. *)
(***************************************************************************)
Resource(name_) == [name |-> name_, nonce |-> "none"]

\* Resource::get_nf
Nf(resource_) == <<"nf", resource_>>

\* Resource::commitment
Cm(resource_) == <<"cm", resource_>>

\* ComplianceInfo::new(input, .., &mut output, ..): the unit of one consumed and
\* one created resource; the created resource is updated in place.
ComplianceInfo_new(input_, output_) ==
    [input |-> input_, output |-> [output_ EXCEPT !.nonce = input_.name]]

\* The reserved slots a circuit publishes for its owned resource id and its
\* input_resources and output_resources arrays.
MandatoryPublicInputs(owned_resource_id_, input_resources_, output_resources_) ==
    [slot \in ReservedSlots |->
        CASE slot = RESOURCE_LOGIC_CIRCUIT_OWNED_RESOURCE_ID_PUBLIC_INPUT_IDX ->
                 owned_resource_id_
          [] slot = RESOURCE_LOGIC_CIRCUIT_NULLIFIER_ONE_PUBLIC_INPUT_IDX ->
                 Nf(input_resources_[1])
          [] slot = RESOURCE_LOGIC_CIRCUIT_NULLIFIER_TWO_PUBLIC_INPUT_IDX ->
                 Nf(input_resources_[2])
          [] slot = RESOURCE_LOGIC_CIRCUIT_OUTPUT_CM_ONE_PUBLIC_INPUT_IDX ->
                 Cm(output_resources_[1])
          [] slot = RESOURCE_LOGIC_CIRCUIT_OUTPUT_CM_TWO_PUBLIC_INPUT_IDX ->
                 Cm(output_resources_[2])]

\* The bytecode of a circuit { owned_resource_id, input_resources,
\* output_resources, .. } whose witness satisfies its constraints.
CircuitByteCode(tag_, owned_resource_id_, input_resources_, output_resources_) ==
    ResourceLogicByteCode_new(
        tag_,
        [public_inputs |->
             MandatoryPublicInputs(owned_resource_id_, input_resources_, output_resources_),
         satisfied |-> TRUE])

\* ResourceLogics::new(Box::new(circuit), vec![]) as application bytecode.
IntentResourceLogics(tag_, owned_resource_id_, input_resources_, output_resources_) ==
    ApplicationByteCode_new(
        CircuitByteCode(tag_, owned_resource_id_, input_resources_, output_resources_),
        <<>>)

\* The logics a helper outside the examples attaches to a token or padding
\* resource: the mandatory logic of the resource's kind and dynamic logics of
\* the catalogue, all built from the same owned id and arrays.
HelperResourceLogics(tag_, dynamic_, id_, input_resources_, output_resources_) ==
    ApplicationByteCode_new(
        CircuitByteCode(tag_, id_, input_resources_, output_resources_),
        [k \in 1 .. Len(dynamic_) |->
            CircuitByteCode(dynamic_[k], id_, input_resources_, output_resources_)])

\* generate_input_token_resource_logics(.., input_resources, output_resources)
InputTokenResourceLogics(dynamic_, resource_, input_resources_, output_resources_) ==
    HelperResourceLogics("Token", dynamic_, Nf(resource_), input_resources_,
                         output_resources_)

\* generate_output_token_resource_logics(.., input_resources, output_resources)
OutputTokenResourceLogics(dynamic_, resource_, input_resources_, output_resources_) ==
    HelperResourceLogics("Token", dynamic_, Cm(resource_), input_resources_,
                         output_resources_)

\* ResourceLogics::create_input_padding_resource_resource_logics
InputPaddingResourceLogics(resource_, input_resources_, output_resources_) ==
    HelperResourceLogics("Trivial", <<>>, Nf(resource_), input_resources_,
                         output_resources_)

\* ResourceLogics::create_output_padding_resource_resource_logics
OutputPaddingResourceLogics(resource_, input_resources_, output_resources_) ==
    HelperResourceLogics("Trivial", <<>>, Cm(resource_), input_resources_,
                         output_resources_)

\* ShieldedPartialTransaction::build(compliances, input_resource_logics,
\*                                   output_resource_logics, vec![], rng)
ShieldedPartialTransaction_build(compliances_, input_resource_logics_, output_resource_logics_) ==
    [compliances |-> compliances_,
     input_resource_logics |-> input_resource_logics_,
     output_resource_logics |-> output_resource_logics_]

\* The dynamic logics the token helpers may attach: none, or one of any tag.
DynamicTags == {<<>>} \cup {<<t>> : t \in ResourceLogicRepresentation}

\* cascaded_partial_transactions.rs: the resources of create_transaction.
input_resource_1 == Resource("input_resource_1")

input_resource_2 == Resource("input_resource_2")

input_resource_3 == Resource("input_resource_3")

\* ptx_1: Alice consumes 1 "BTC" and 2 "ETH", and creates 1 "BTC" to Bob and
\* the cascade intent resource.
Ptx1Compliances ==
    <<ComplianceInfo_new(input_resource_1, Resource("output_resource_1")),
      ComplianceInfo_new(input_resource_2, Resource("cascade_intent_resource"))>>

output_resource_1 == Ptx1Compliances[1].output

cascade_intent_resource == Ptx1Compliances[2].output

\* ptx_2: Alice consumes the intent resource and 3 "XAN", and creates 2 "ETH"
\* and 3 "XAN" to Bob.
Ptx2Compliances ==
    <<ComplianceInfo_new(cascade_intent_resource, Resource("output_resource_2")),
      ComplianceInfo_new(input_resource_3, Resource("output_resource_3"))>>

output_resource_2 == Ptx2Compliances[1].output

output_resource_3 == Ptx2Compliances[2].output

Ptx1InputResources == <<input_resource_1, input_resource_2>>

Ptx1OutputResources == <<output_resource_1, cascade_intent_resource>>

\* The arrays of ptx_2 taken over from ptx_1.
Ptx2InputResources_OfPtx1 == <<input_resource_1, input_resource_2>>

Ptx2InputResources == <<cascade_intent_resource, input_resource_3>>

Ptx2OutputResources == <<output_resource_2, output_resource_3>>

\* The intent logic of ptx_1, where the intent resource is created.
Ptx1IntentResourceLogics ==
    IntentResourceLogics("CascadeIntent", Cm(cascade_intent_resource),
                         Ptx1InputResources, Ptx1OutputResources)

\* The intent logic of ptx_2 declaring the commitment of the intent resource.
Ptx2IntentResourceLogics_OwnedByCommitment ==
    IntentResourceLogics("CascadeIntent", Cm(cascade_intent_resource),
                         Ptx2InputResources, Ptx2OutputResources)

\* The intent logic of ptx_2, where the intent resource is consumed.
Ptx2IntentResourceLogics ==
    IntentResourceLogics("CascadeIntent", Nf(cascade_intent_resource),
                         Ptx2InputResources, Ptx2OutputResources)

CascadePtx1(dynamic_) ==
    ShieldedPartialTransaction_build(
        Ptx1Compliances,
        <<InputTokenResourceLogics(dynamic_, input_resource_1,
                                   Ptx1InputResources, Ptx1OutputResources),
          InputTokenResourceLogics(dynamic_, input_resource_2,
                                   Ptx1InputResources, Ptx1OutputResources)>>,
        <<OutputTokenResourceLogics(dynamic_, output_resource_1,
                                    Ptx1InputResources, Ptx1OutputResources),
          Ptx1IntentResourceLogics>>)

CascadePtx2(dynamic_) ==
    ShieldedPartialTransaction_build(
        Ptx2Compliances,
        <<Ptx2IntentResourceLogics,
          InputTokenResourceLogics(dynamic_, input_resource_3,
                                   Ptx2InputResources, Ptx2OutputResources)>>,
        <<OutputTokenResourceLogics(dynamic_, output_resource_2,
                                    Ptx2InputResources, Ptx2OutputResources),
          OutputTokenResourceLogics(dynamic_, output_resource_3,
                                    Ptx2InputResources, Ptx2OutputResources)>>)

\* ShieldedPartialTxBundle::new(vec![ptx_1, ptx_2])
CascadeTransaction(dynamic_) == <<CascadePtx1(dynamic_), CascadePtx2(dynamic_)>>

\* token_swap_with_intent.rs: Alice consumes her token and creates the intent
\* resource; both units are padded with a padding resource.
create_token_intent_ptx(dynamic_) ==
    LET input_resource == Resource("alice.input_resource")
        padding_input_resource == Resource("alice.padding_input_resource")
        compliances ==
            <<ComplianceInfo_new(input_resource, Resource("alice.intent_resource")),
              ComplianceInfo_new(padding_input_resource,
                                 Resource("alice.padding_output_resource"))>>
        intent_resource == compliances[1].output
        padding_output_resource == compliances[2].output
        input_resources == <<input_resource, padding_input_resource>>
        output_resources == <<intent_resource, padding_output_resource>>
    IN  ShieldedPartialTransaction_build(
            compliances,
            <<InputTokenResourceLogics(dynamic_, input_resource,
                                       input_resources, output_resources),
              InputPaddingResourceLogics(padding_input_resource,
                                         input_resources, output_resources)>>,
            <<IntentResourceLogics("OrRelationIntent", Cm(intent_resource),
                                   input_resources, output_resources),
              OutputPaddingResourceLogics(padding_output_resource,
                                          input_resources, output_resources)>>)

\* crate::token::create_token_swap_ptx: Bob consumes his token and creates the
\* token he pays with, padded like the other partial transactions.
create_token_swap_ptx(dynamic_) ==
    LET input_resource == Resource("bob.input_resource")
        padding_input_resource == Resource("bob.padding_input_resource")
        compliances ==
            <<ComplianceInfo_new(input_resource, Resource("bob.output_resource")),
              ComplianceInfo_new(padding_input_resource,
                                 Resource("bob.padding_output_resource"))>>
        output_resource == compliances[1].output
        padding_output_resource == compliances[2].output
        input_resources == <<input_resource, padding_input_resource>>
        output_resources == <<output_resource, padding_output_resource>>
    IN  ShieldedPartialTransaction_build(
            compliances,
            <<InputTokenResourceLogics(dynamic_, input_resource,
                                       input_resources, output_resources),
              InputPaddingResourceLogics(padding_input_resource,
                                         input_resources, output_resources)>>,
            <<OutputTokenResourceLogics(dynamic_, output_resource,
                                        input_resources, output_resources),
              OutputPaddingResourceLogics(padding_output_resource,
                                          input_resources, output_resources)>>)

\* The solver consumes the intent resource and creates Alice's token.
consume_token_intent_ptx(dynamic_) ==
    LET intent_resource == Resource("solver.intent_resource")
        padding_input_resource == Resource("solver.padding_input_resource")
        compliances ==
            <<ComplianceInfo_new(intent_resource, Resource("solver.output_resource")),
              ComplianceInfo_new(padding_input_resource,
                                 Resource("solver.padding_output_resource"))>>
        output_resource == compliances[1].output
        padding_output_resource == compliances[2].output
        input_resources == <<intent_resource, padding_input_resource>>
        output_resources == <<output_resource, padding_output_resource>>
    IN  ShieldedPartialTransaction_build(
            compliances,
            <<IntentResourceLogics("OrRelationIntent", Nf(intent_resource),
                                   input_resources, output_resources),
              InputPaddingResourceLogics(padding_input_resource,
                                         input_resources, output_resources)>>,
            <<OutputTokenResourceLogics(dynamic_, output_resource,
                                        input_resources, output_resources),
              OutputPaddingResourceLogics(padding_output_resource,
                                          input_resources, output_resources)>>)

\* ShieldedPartialTxBundle::new(vec![alice_ptx, bob_ptx, solver_ptx])
create_token_swap_intent_transaction(dynamic_) ==
    <<create_token_intent_ptx(dynamic_),
      create_token_swap_ptx(dynamic_),
      consume_token_intent_ptx(dynamic_)>>

\* The resource logics of a partial transaction in the order they are
\* verified: those of the two input resources, then those of the two output
\* resources.
LogicsOf(ptx_) == ptx_.input_resource_logics \o ptx_.output_resource_logics

\* The nullifiers and the commitments of the compliance units of a partial
\* transaction, in the order of the units.
ComplianceNfs(ptx_) == <<Nf(ptx_.compliances[1].input), Nf(ptx_.compliances[2].input)>>

ComplianceCms(ptx_) == <<Cm(ptx_.compliances[1].output), Cm(ptx_.compliances[2].output)>>

\* The id of the resource the slot-th logics of a partial transaction govern: the
\* nullifier of the consumed resource, the commitment of the created one.
GovernedId(ptx_, slot_) ==
    IF slot_ <= 2 THEN ComplianceNfs(ptx_)[slot_] ELSE ComplianceCms(ptx_)[slot_ - 2]

InitExamples ==
    /\ features \in SUBSET Features
    /\ transaction \in
          {CascadeTransaction(d) : d \in DynamicTags}
              \cup {create_token_swap_intent_transaction(d) : d \in DynamicTags}
    /\ position = [ptx |-> 1, slot |-> 1]
    /\ tx_result = NoResult
    /\ pc = "load"
    /\ op = "none"
    /\ logic = <<>>
    /\ application = <<>>
    /\ compliance_nfs = <<>>
    /\ compliance_cms = <<>>
    /\ public_inputs = <<>>
    /\ compared = {}
    /\ owned_resource_id = 0
    /\ idx = 0
    /\ verifying_infos = <<>>
    /\ evaluated = <<>>
    /\ result = NoResult
    /\ witness = <<>>
    /\ cells = <<>>
    /\ unsatisfied = {}

\* The next resource logics of the transaction are handed, with the nullifiers
\* and commitments of their partial transaction's compliance units, to
\* ApplicationByteCode::verify_transparently.
TxLoad ==
    /\ pc = "load"
    /\ LET ptx == transaction[position.ptx]
       IN  /\ application' = LogicsOf(ptx)[position.slot]
           /\ logic' = LogicsOf(ptx)[position.slot].app_resource_logic_bytecode
           /\ compliance_nfs' = ComplianceNfs(ptx)
           /\ compliance_cms' = ComplianceCms(ptx)
    /\ op' = "none"
    /\ owned_resource_id' = 0
    /\ idx' = 0
    /\ evaluated' = <<>>
    /\ result' = NoResult
    /\ pc' = "idle"
    /\ UNCHANGED <<features, public_inputs, compared, verifying_infos, outerVars>>

\* The returned owned resource id is compared with the id of the resource the
\* logics were attached to; an error ends the execution, otherwise the next
\* logics follow, and after the last the transaction has executed.
TxCheckOwnedId ==
    /\ pc = "done"
    /\ op = "verify_transparently"
    /\ LET ptx == transaction[position.ptx]
       IN  IF IsErr(result)
           THEN /\ tx_result' = result
                /\ pc' = "executed"
                /\ UNCHANGED position
           ELSE IF result.val # GovernedId(ptx, position.slot)
           THEN /\ tx_result' = Err("InconsistentOwnedResourceID")
                /\ pc' = "executed"
                /\ UNCHANGED position
           ELSE IF position.slot < Len(LogicsOf(ptx))
           THEN /\ position' = [position EXCEPT !.slot = position.slot + 1]
                /\ pc' = "load"
                /\ UNCHANGED tx_result
           ELSE IF position.ptx < Len(transaction)
           THEN /\ position' = [ptx |-> position.ptx + 1, slot |-> 1]
                /\ pc' = "load"
                /\ UNCHANGED tx_result
           ELSE /\ tx_result' = Ok(<<>>)
                /\ pc' = "executed"
                /\ UNCHANGED position
    /\ UNCHANGED <<features, logic, application, compliance_nfs, compliance_cms, op,
                   public_inputs, compared, appLocals, result, circuitVars, transaction>>

NextExamples ==
    \/ TxLoad
    \/ AppVerifyMandatory
    \/ AppVerifyDynamic
    \/ AppVerifyReturn
    \/ TxCheckOwnedId

SpecExamples == InitExamples /\ [][NextExamples]_vars

(***************************************************************************)
(* Properties of the example transactions (checked under SpecExamples).    *)
(***************************************************************************)
\* Every logic of the application handed over is compiled into the build.
AllCompiled(application_) ==
    /\ Compiled(features, application_.app_resource_logic_bytecode.circuit)
    /\ \A k \in 1 .. Len(application_.dynamic_resource_logic_bytecode) :
          Compiled(features, application_.dynamic_resource_logic_bytecode[k].circuit)

\* The logics of an application: the mandatory one, then the dynamic ones.
AllLogics(application_) ==
    <<application_.app_resource_logic_bytecode>> \o application_.dynamic_resource_logic_bytecode

SudokuCells == 0 .. (SudokuSize * SudokuSize - 1)

\* The numbers 1 .. 9 of a row, a column, a square, or a cell within one.
SudokuRange == 1 .. SudokuSize

\* What a thread that panicked leaves instead of a returned value.
Panic == [kind |-> "Panic"]

\* The grid of test_resource_logic.
ReferenceSudoku ==
    <<<<7, 6, 9, 5, 3, 8, 1, 2, 4>>,
      <<2, 4, 3, 7, 1, 9, 6, 5, 8>>,
      <<8, 5, 1, 4, 6, 2, 9, 7, 3>>,
      <<4, 8, 6, 9, 7, 5, 3, 1, 2>>,
      <<5, 3, 7, 6, 2, 1, 4, 8, 9>>,
      <<1, 9, 2, 8, 4, 3, 7, 6, 5>>,
      <<6, 1, 8, 3, 5, 4, 2, 9, 7>>,
      <<9, 7, 4, 2, 8, 6, 5, 3, 1>>,
      <<3, 2, 5, 1, 9, 7, 8, 4, 6>>>>

\* state.concat()
Concat(sudoku_) ==
    [i \in SudokuCells |-> sudoku_[(i \div SudokuSize) + 1][(i % SudokuSize) + 1]]

\* rows: chunks(9) of the cells.
Rows == [r \in SudokuRange |-> [k \in SudokuRange |-> SudokuSize * (r - 1) + (k - 1)]]

\* The columns left out: the rows are checked a second time instead.
Cols_RowsAgain == Rows

\* cols: the (i - 1)-th cell of every row, for i in 1..10.
Cols == [i \in SudokuRange |-> [r \in SudokuRange |-> Rows[r][i]]]

\* The small squares left out: the rows are checked a second time instead.
Squares_RowsAgain == Rows

\* small squares: for i in 1..4, for j in 1..4, the cells (j-1)*3..j*3 of the
\* rows (i-1)*3..i*3, concatenated.
Squares ==
    [n \in SudokuRange |->
        LET i == ((n - 1) \div SquareSize) + 1
            j == ((n - 1) % SquareSize) + 1
        IN  [k \in SudokuRange |->
                Rows[(i - 1) * SquareSize + ((k - 1) \div SquareSize) + 1]
                    [(j - 1) * SquareSize + ((k - 1) % SquareSize) + 1]]]

\* [rows, cols, squares].concat()
Perms == Rows \o Cols \o Squares

\* for i in 0..9 { for j in (i + 1)..9 { diff = perm[i] - perm[j] } }: the
\* differences in the order the loops make them.
RECURSIVE PairwiseDifferences(_, _, _, _)
PairwiseDifferences(perm_, i_, j_, diffs_) ==
    IF i_ > SudokuSize
    THEN diffs_
    ELSE IF j_ > SudokuSize
         THEN PairwiseDifferences(perm_, i_ + 1, i_ + 2, diffs_)
         ELSE PairwiseDifferences(perm_, i_, j_ + 1, Append(diffs_, Sub(perm_[i_], perm_[j_])))

\* PairwiseProduct over the differences of neighbouring cells only.
RECURSIVE PairwiseProduct_Adjacent(_, _, _, _)
PairwiseProduct_Adjacent(perm_, i_, j_, cell_lhs_) ==
    IF i_ >= SudokuSize
    THEN cell_lhs_
    ELSE PairwiseProduct_Adjacent(perm_, i_ + 1, i_ + 2,
                                  Mul(cell_lhs_, Sub(perm_[i_], perm_[i_ + 1])))

\* for i in 0..9 { for j in (i + 1)..9 { cell_lhs = cell_lhs * (perm[i] - perm[j]) } }
\* with the cells of perm_ numbered from 1.
RECURSIVE PairwiseProduct(_, _, _, _)
PairwiseProduct(perm_, i_, j_, cell_lhs_) ==
    IF i_ > SudokuSize
    THEN cell_lhs_
    ELSE IF j_ > SudokuSize
         THEN PairwiseProduct(perm_, i_ + 1, i_ + 2, cell_lhs_)
         ELSE PairwiseProduct(perm_, i_, j_ + 1, Mul(cell_lhs_, Sub(perm_[i_], perm_[j_])))

\* x.invert() of a non-zero field element.
Invert(x_) == CHOOSE y \in 1 .. (FieldModulus - 1) : Mul(x_, y) = 1

\* The grids check_puzzle is run on: the reference grid with one cell
\* overwritten by a blank or a digit, with two cells exchanged, with two rows
\* exchanged, with two columns exchanged, with a column blanked from some row
\* on (SudokuState::default() blanks a whole column), or with a blank and, in
\* the same row, a second blank or the value the first blank is remapped to.
SampleStates ==
    LET reference == Concat(ReferenceSudoku)
        exchanged(f(_)) == [i \in SudokuCells |-> reference[f(i)]]
    IN  {[reference EXCEPT ![i] = v] : i \in SudokuCells, v \in 0 .. SudokuSize}
        \cup {[reference EXCEPT ![i] = reference[j], ![j] = reference[i]] :
                 i \in SudokuCells, j \in SudokuCells}
        \cup {[i \in SudokuCells |->
                  LET r == i \div SudokuSize
                  IN  reference[SudokuSize * (IF r = a THEN b ELSE IF r = b THEN a ELSE r)
                                + (i % SudokuSize)]] :
                 a \in 0 .. (SudokuSize - 1), b \in 0 .. (SudokuSize - 1)}
        \cup {[i \in SudokuCells |->
                  LET c == i % SudokuSize
                  IN  reference[SudokuSize * (i \div SudokuSize)
                                + (IF c = a THEN b ELSE IF c = b THEN a ELSE c)]] :
                 a \in 0 .. (SudokuSize - 1), b \in 0 .. (SudokuSize - 1)}
        \cup {[i \in SudokuCells |->
                  IF i % SudokuSize = c /\ i \div SudokuSize >= r THEN 0 ELSE reference[i]] :
                 c \in 0 .. (SudokuSize - 1), r \in 0 .. (SudokuSize - 1)}
        \cup UNION {{[reference EXCEPT ![i] = 0, ![j] = v] :
                        j \in {k \in SudokuCells :
                                  k # i /\ k \div SudokuSize = i \div SudokuSize},
                        v \in {0, BlankOffset + i}} :
                    i \in SudokuCells}

InitSudoku ==
    /\ witness \in [state : SampleStates]
    /\ cells = <<>>
    /\ unsatisfied = {}
    /\ pc = "idle"
    /\ op = "check_puzzle"
    /\ idx = 0
    /\ result = NoResult
    /\ features = Features
    /\ logic = <<>>
    /\ application = <<>>
    /\ compliance_nfs = <<>>
    /\ compliance_cms = <<>>
    /\ public_inputs = <<>>
    /\ compared = {}
    /\ owned_resource_id = 0
    /\ verifying_infos = <<>>
    /\ evaluated = <<>>
    /\ transaction = <<>>
    /\ position = <<>>
    /\ tx_result = NoResult

\* What check_puzzle leaves alone.
puzzleFrame ==
    <<features, logic, application, compliance_nfs, compliance_cms, op,
      public_inputs, compared, owned_resource_id, verifying_infos, evaluated,
      witness, txVars>>

\* PuzzleNonZeroCells giving every blank cell the same value 10.
PuzzleNonZeroCells_SharedBlank ==
    /\ pc = "idle"
    /\ cells' = [non_zero_sudoku_cells |->
                    [i \in SudokuCells |->
                        IF witness.state[i] = 0 THEN BlankOffset ELSE witness.state[i]]]
    /\ idx' = 1
    /\ pc' = "perms"
    /\ UNCHANGED <<puzzleFrame, unsatisfied, result>>

\* non_zero_sudoku_cells: a blank cell i becomes 10 + i, any other cell is kept.
PuzzleNonZeroCells ==
    /\ pc = "idle"
    /\ cells' = [non_zero_sudoku_cells |->
                    [i \in SudokuCells |->
                        IF witness.state[i] = 0 THEN BlankOffset + i ELSE witness.state[i]]]
    /\ idx' = 1
    /\ pc' = "perms"
    /\ UNCHANGED <<puzzleFrame, unsatisfied, result>>

\* One iteration of: for perm in [rows, cols, squares].concat().iter().  The
\* product of the pairwise differences of the line is inverted, which panics
\* on zero, and lhs * 1/lhs is constrained to equal the constant one.
PuzzleCheckPerm ==
    /\ pc = "perms"
    /\ idx <= Len(Perms)
    /\ LET perm == [k \in SudokuRange |-> cells.non_zero_sudoku_cells[Perms[idx][k]]]
           cell_lhs == PairwiseProduct(perm, 1, 2, 1)
       IN  IF cell_lhs = 0
           THEN /\ result' = Panic
                /\ pc' = "done"
                /\ UNCHANGED <<idx, unsatisfied>>
           ELSE /\ unsatisfied' =
                      (IF Mul(cell_lhs, Invert(cell_lhs)) = 1
                       THEN unsatisfied
                       ELSE unsatisfied \cup {idx})
                /\ idx' = idx + 1
                /\ UNCHANGED <<result, pc>>
    /\ UNCHANGED <<puzzleFrame, cells>>

\* Ok(())
PuzzleReturn ==
    /\ pc = "perms"
    /\ idx > Len(Perms)
    /\ result' = Ok(<<>>)
    /\ pc' = "done"
    /\ UNCHANGED <<puzzleFrame, cells, idx, unsatisfied>>

NextSudoku ==
    \/ PuzzleNonZeroCells
    \/ PuzzleCheckPerm
    \/ PuzzleReturn

SpecSudoku == InitSudoku /\ [][NextSudoku]_vars

(***************************************************************************)
(* Properties of the Sudoku logic (checked under SpecSudoku).              *)
(***************************************************************************)
\* Two different cells share a row, a column or a small square.
SameLine(i_, j_) ==
    /\ i_ # j_
    /\ \/ i_ \div SudokuSize = j_ \div SudokuSize
       \/ i_ % SudokuSize = j_ % SudokuSize
       \/ /\ i_ \div (SudokuSize * SquareSize) = j_ \div (SudokuSize * SquareSize)
          /\ (i_ % SudokuSize) \div SquareSize = (j_ % SudokuSize) \div SquareSize

\* A digit occurs twice in a row, a column or a small square of the grid.
DuplicatedDigit(state_) ==
    \E i \in SudokuCells, j \in SudokuCells :
        SameLine(i, j) /\ state_[i] = state_[j] /\ state_[i] \in SudokuRange

\* The logic accepted the grid: check_puzzle returned and every constraint holds.
PuzzleAccepted == pc = "done" /\ result = Ok(<<>>) /\ unsatisfied = {}

\* C16: a grid with a digit duplicated in a row, a column or a small square
\* is never accepted, and the reference solved grid is accepted.
C16_RejectsDuplicates ==
    pc = "done" =>
        /\ DuplicatedDigit(witness.state) => ~PuzzleAccepted
        /\ witness.state = Concat(ReferenceSudoku) => PuzzleAccepted

\* C16 witness: a grid whose rows and columns are complete and one of whose
\* small squares holds a digit twice was rejected.
C16_Witness ==
    /\ pc = "done"
    /\ ~PuzzleAccepted
    /\ \A i \in SudokuCells, j \in SudokuCells :
          (SameLine(i, j) /\ witness.state[i] = witness.state[j]) =>
              /\ i \div SudokuSize # j \div SudokuSize
              /\ i % SudokuSize # j % SudokuSize

\* The reference grid was accepted.
ReferenceAccepted == PuzzleAccepted /\ witness.state = Concat(ReferenceSudoku)

(***************************************************************************)
(* The public inputs of a resource logic: get_public_inputs of the Sudoku  *)
(* logics, which pads the mandatory public inputs to the fixed capacity.   *)
(***************************************************************************)
\* The fixed capacity of a public-input vector.
PublicInputCapacity == 7

\* The seeds get_public_inputs draws.
Seeds == Field

\* The k-th field element drawn from a generator seeded with seed_.
RngOutput(seed_, k_) == (seed_ * k_ + seed_ + k_) % MaxField

\* ResourceLogicPublicInputs::get_public_input_padding(input_len, seed): the
\* capacity minus input_len elements drawn from a generator seeded with seed;
\* fails when input_len exceeds the capacity.
get_public_input_padding(input_len_, seed_) ==
    IF input_len_ > PublicInputCapacity
    THEN Panic
    ELSE Ok([k \in 1 .. (PublicInputCapacity - input_len_) |-> RngOutput(seed_, k)])

\* get_mandatory_public_inputs: the reserved slots as a Vec.
MandatoryVec(public_inputs_) ==
    [k \in 1 .. Cardinality(ReservedSlots) |-> public_inputs_[k - 1]]

InitPadding ==
    /\ witness \in
          [mandatory : {p \in ResourceLogicPublicInputs :
                           /\ p[RESOURCE_LOGIC_CIRCUIT_NULLIFIER_ONE_PUBLIC_INPUT_IDX] = 0
                           /\ p[RESOURCE_LOGIC_CIRCUIT_OUTPUT_CM_ONE_PUBLIC_INPUT_IDX] = 0},
           seed : Seeds,
           used_length : 0 .. (PublicInputCapacity + 1)]
    /\ cells = <<>>
    /\ unsatisfied = {}
    /\ pc = "idle"
    /\ op = "none"
    /\ idx = 0
    /\ result = NoResult
    /\ features = Features
    /\ logic = <<>>
    /\ application = <<>>
    /\ compliance_nfs = <<>>
    /\ compliance_cms = <<>>
    /\ public_inputs = <<>>
    /\ compared = {}
    /\ owned_resource_id = 0
    /\ verifying_infos = <<>>
    /\ evaluated = <<>>
    /\ transaction = <<>>
    /\ position = <<>>
    /\ tx_result = NoResult

\* get_public_inputs asking for the padding of an empty vector.
GetPublicInputs_PadsFromZero ==
    /\ pc = "idle"
    /\ op' = "get_public_inputs"
    /\ LET mandatory == MandatoryVec(witness.mandatory)
           padding == get_public_input_padding(0, witness.seed)
       IN  /\ public_inputs' = (IF IsOk(padding) THEN mandatory \o padding.val ELSE mandatory)
           /\ result' = (IF IsOk(padding) THEN Ok(mandatory \o padding.val) ELSE padding)
    /\ pc' = "returned"
    /\ UNCHANGED <<features, logic, application, compliance_nfs, compliance_cms,
                   compared, appLocals, outerVars>>

\* get_public_inputs: the mandatory public inputs extended by the padding for
\* their length and a fresh seed.
GetPublicInputs ==
    /\ pc = "idle"
    /\ op' = "get_public_inputs"
    /\ LET mandatory == MandatoryVec(witness.mandatory)
           padding == get_public_input_padding(Len(mandatory), witness.seed)
       IN  /\ public_inputs' = (IF IsOk(padding) THEN mandatory \o padding.val ELSE mandatory)
           /\ result' = (IF IsOk(padding) THEN Ok(mandatory \o padding.val) ELSE padding)
    /\ pc' = "returned"
    /\ UNCHANGED <<features, logic, application, compliance_nfs, compliance_cms,
                   compared, appLocals, outerVars>>

\* A call of get_public_input_padding(used_length, seed); it is called twice
\* after get_public_inputs has returned.
CallPadding ==
    /\ pc \in {"returned", "called"}
    /\ cells' = Append(cells, get_public_input_padding(witness.used_length, witness.seed))
    /\ pc' = (IF pc = "returned" THEN "called" ELSE "done")
    /\ UNCHANGED <<features, logic, application, compliance_nfs, compliance_cms, op,
                   public_inputs, compared, appLocals, result, witness, unsatisfied,
                   txVars>>

NextPadding ==
    \/ GetPublicInputs
    \/ CallPadding

SpecPadding == InitPadding /\ [][NextPadding]_vars

WidePublicInputs ==
    {p \in [0 .. (PublicInputCapacity - 1) -> Field] :
        /\ p[RESOURCE_LOGIC_CIRCUIT_NULLIFIER_ONE_PUBLIC_INPUT_IDX] = 0
        /\ p[RESOURCE_LOGIC_CIRCUIT_NULLIFIER_TWO_PUBLIC_INPUT_IDX] <= 1
        /\ p[RESOURCE_LOGIC_CIRCUIT_OUTPUT_CM_ONE_PUBLIC_INPUT_IDX] = 0
        /\ p[RESOURCE_LOGIC_CIRCUIT_OUTPUT_CM_TWO_PUBLIC_INPUT_IDX] <= 1
        /\ \A i \in (Cardinality(ReservedSlots) + 1) .. (PublicInputCapacity - 1) : p[i] <= 1}

InitTwin ==
    /\ features \in {Features, {"borsh"}}
    /\ logic \in {ResourceLogicByteCode_new("Token", [public_inputs |-> p, satisfied |-> s]) :
                     p \in WidePublicInputs, s \in BOOLEAN}
    /\ application = ApplicationByteCode_new(logic, <<>>)
    /\ witness \in
          [first : {logic},
           twin : {ResourceLogicByteCode_new(
                       "Token", [public_inputs |-> p, satisfied |-> logic.inputs.satisfied]) :
                      p \in {q \in WidePublicInputs :
                                \A slot \in ReservedSlots :
                                    q[slot] = logic.inputs.public_inputs[slot]}}]
    /\ compliance_nfs \in CompliancePairs
    /\ compliance_cms \in CompliancePairs
    /\ cells = <<>>
    /\ unsatisfied = {}
    /\ op = "none"
    /\ pc = "idle"
    /\ public_inputs = <<>>
    /\ compared = {}
    /\ owned_resource_id = 0
    /\ idx = 0
    /\ verifying_infos = <<>>
    /\ evaluated = <<>>
    /\ result = NoResult
    /\ transaction = <<>>
    /\ position = <<>>
    /\ tx_result = NoResult

\* The result of the first logic is kept and verify_transparently is called on
\* the second logic with the same compliance data.
TwinSwitch ==
    /\ pc = "done"
    /\ cells = <<>>
    /\ cells' = <<result>>
    /\ logic' = witness.twin
    /\ application' = ApplicationByteCode_new(witness.twin, <<>>)
    /\ op' = "none"
    /\ pc' = "idle"
    /\ public_inputs' = <<>>
    /\ compared' = {}
    /\ result' = NoResult
    /\ UNCHANGED <<features, compliance_nfs, compliance_cms, appLocals, witness,
                   unsatisfied, txVars>>

NextTwin ==
    \/ RLDispatch
    \/ RLCheckNullifiers
    \/ RLCheckCommitments
    \/ TwinSwitch

SpecTwin == InitTwin /\ [][NextTwin]_vars

\* C18: two public-input vectors that agree on the reserved slots give the
\* same result of verify_transparently under the same compliance data,
\* whatever their remainder and padding.
C18_ReservedSlotsOnly ==
    (pc = "done" /\ cells # <<>>) => result = cells[1]

\* C18 witness: the second logic differs from the first in the remainder and
\* in the padding, and both calls returned the owned resource id.
C18_Witness ==
    /\ pc = "done"
    /\ cells # <<>>
    /\ logic = witness.twin
    /\ IsOk(result)
    /\ \A i \in Cardinality(ReservedSlots) .. (PublicInputCapacity - 1) :
          witness.first.inputs.public_inputs[i] # witness.twin.inputs.public_inputs[i]

(***************************************************************************)
(* The lifecycle of the resource logics of one application:                *)
(* ApplicationByteCode::verify_transparently with the call of              *)
(* ResourceLogicByteCode::verify_transparently on each logic taken step by *)
(* step (dispatch, the two binding comparisons, the comparison of the      *)
(* returned id), next to ApplicationByteCode::generate_proofs.             *)
(***************************************************************************)
\* The logics applications are built from here: those of SampleLogics with
\* the owned-resource-id 0 or 1.
LifecycleLogics ==
    {b \in SampleLogics :
        b.inputs.public_inputs[RESOURCE_LOGIC_CIRCUIT_OWNED_RESOURCE_ID_PUBLIC_INPUT_IDX] <= 1}

InitLifecycle ==
    /\ features \in {Features, {"borsh"}}
    /\ application \in
          {ApplicationByteCode_new(a, d) :
              a \in LifecycleLogics,
              d \in UNION {[1 .. n -> LifecycleLogics] : n \in 0 .. MaxDynamic}}
    /\ logic = application.app_resource_logic_bytecode
    /\ compliance_nfs \in CompliancePairs
    /\ compliance_cms \in CompliancePairs
    /\ InitLocals

\* The call of verify_transparently on the next logic, up to its match.
LcDispatch ==
    /\ \/ pc = "idle"
       \/ /\ pc = "loop"
          /\ op = "verify_transparently"
          /\ idx <= Len(application.dynamic_resource_logic_bytecode)
    /\ op' = "verify_transparently"
    /\ logic' = LogicAt(idx)
    /\ evaluated' = Append(evaluated, idx)
    /\ compared' = {}
    /\ LET d == Dispatch(features, LogicAt(idx))
       IN  IF IsErr(d)
           THEN /\ result' = d
                /\ pc' = "done"
                /\ public_inputs' = <<>>
           ELSE /\ public_inputs' = d.val
                /\ pc' = "check_nfs"
                /\ UNCHANGED result
    /\ UNCHANGED <<outerVars, features, application, compliance_nfs, compliance_cms,
                   owned_resource_id, idx, verifying_infos>>

\* LcCheckCommitments that returns the id without comparing the commitments.
LcCheckCommitments_IgnoresMismatch ==
    /\ pc = "check_cms"
    /\ compared' = compared \cup {"cms"}
    /\ pc' = "aggregate"
    /\ UNCHANGED <<callVars, op, public_inputs, result, appLocals>>

\* check resource_commitments; on success the call returns the id to the
\* aggregator.
LcCheckCommitments ==
    /\ pc = "check_cms"
    /\ compared' = compared \cup {"cms"}
    /\ IF ~CommitmentsConsistent(public_inputs, compliance_cms)
       THEN /\ result' = Err("InconsistentOutputResourceCommitment")
            /\ pc' = "done"
       ELSE /\ pc' = "aggregate"
            /\ UNCHANGED result
    /\ UNCHANGED <<callVars, op, public_inputs, appLocals>>

\* The aggregator takes the returned id: the mandatory logic's becomes
\* owned_resource_id, a dynamic logic's is compared with it.
LcAggregate ==
    /\ pc = "aggregate"
    /\ LET id == OwnedResourceId(public_inputs)
       IN  IF idx = 0
           THEN /\ owned_resource_id' = id
                /\ idx' = 1
                /\ pc' = "loop"
                /\ UNCHANGED result
           ELSE IF id # owned_resource_id
           THEN /\ result' = Err("InconsistentOwnedResourceID")
                /\ pc' = "done"
                /\ UNCHANGED <<owned_resource_id, idx>>
           ELSE /\ idx' = idx + 1
                /\ pc' = "loop"
                /\ UNCHANGED <<owned_resource_id, result>>
    /\ UNCHANGED <<callVars, op, public_inputs, compared, verifying_infos, evaluated>>

NextLifecycle ==
    \/ LcDispatch
    \/ RLCheckNullifiers
    \/ LcCheckCommitments
    \/ LcAggregate
    \/ AppVerifyReturn
    \/ AppGenerateMandatory
    \/ AppGenerateDynamic
    \/ AppGenerateReturn

SpecLifecycle == InitLifecycle /\ [][NextLifecycle]_vars

\* The binding check of the logic in hand has succeeded.
BoundChecked ==
    /\ compared = {"nfs", "cms"}
    /\ IsOk(Dispatch(features, logic))
    /\ public_inputs = Dispatch(features, logic).val
    /\ IsOk(RLVerifyTransparently(features, logic, compliance_nfs, compliance_cms))

\* The positions of C19: the binding comparisons run on the public inputs the
\* dispatch of this logic produced, the id reaches the aggregator only with
\* the binding check passed, no logic is started twice, and a successful
\* verification has taken every logic through in order.
LifecyclePositions ==
    /\ (pc \in {"check_nfs", "check_cms"} \/ compared # {}) =>
          /\ op = "verify_transparently"
          /\ IsOk(Dispatch(features, logic))
          /\ public_inputs = Dispatch(features, logic).val
    /\ pc = "aggregate" => BoundChecked /\ logic = LogicAt(idx)
    /\ \A i, j \in DOMAIN evaluated : i < j => evaluated[i] < evaluated[j]
    /\ (IsOk(result) /\ op = "verify_transparently") =>
          evaluated = [i \in 1 .. (Len(application.dynamic_resource_logic_bytecode) + 1) |-> i - 1]

\* The steps of C19: a logic joins the aggregated ones (idx moves past it, or
\* its id is found inconsistent) only from the position where its own binding
\* check has succeeded; an error is followed by no step.
LifecycleStep ==
    /\ IsErr(result) => vars' = vars
    /\ (/\ op' = "verify_transparently"
        /\ \/ idx' # idx
           \/ result' # result /\ result' = Err("InconsistentOwnedResourceID")) =>
          /\ pc = "aggregate"
          /\ BoundChecked
          /\ logic = LogicAt(idx)

\* C19: a resource logic is bound-checked only after dispatch produced its
\* public inputs, it is aggregated with its siblings only after its own
\* binding check succeeded, and a dispatch, binding or aggregation error is
\* terminal: no later step runs and no logic is started a second time.
C19_Lifecycle == []LifecyclePositions /\ [][LifecycleStep]_vars

\* C19 witness: the mandatory logic has been aggregated, the first dynamic
\* logic passed dispatch and its binding check and failed in aggregation, and
\* the second dynamic logic was never started.
C19_Witness ==
    /\ pc = "done"
    /\ result = Err("InconsistentOwnedResourceID")
    /\ Len(application.dynamic_resource_logic_bytecode) = 2
    /\ evaluated = <<0, 1>>
    /\ compared = {"nfs", "cms"}
    /\ idx = 1

(***************************************************************************)
(* Further properties of the Sudoku logic (checked under SpecSudoku).      *)
(***************************************************************************)
\* The 27 lines of the grid as sets of cells: 9 rows, 9 columns, 9 boxes.
GridLines ==
    LET part == 0 .. (SudokuSize - 1)
    IN  {{i \in SudokuCells : i \div SudokuSize = r} : r \in part}
        \cup {{i \in SudokuCells : i % SudokuSize = c} : c \in part}
        \cup {{i \in SudokuCells :
                   /\ i \div (SudokuSize * SquareSize) = b \div SquareSize
                   /\ (i % SudokuSize) \div SquareSize = b % SquareSize} : b \in part}

\* The line holds each of the digits 1 .. 9 exactly once.
LineComplete(state_, line_) ==
    \A d \in SudokuRange : Cardinality({i \in line_ : state_[i] = d}) = 1

\* Every cell of the grid is a digit 1 .. 9.
AllDigits(state_) == \A i \in SudokuCells : state_[i] \in SudokuRange

\* C21 as stated: every line of an accepted grid holds each digit exactly once.
C21_AsStated ==
    PuzzleAccepted => \A line \in GridLines : LineComplete(witness.state, line)

\* C21: every one of the 27 lines of an accepted grid without blank cells,
\* all of whose cells are digits 1 .. 9, holds each digit exactly once.
C21_CompleteLines ==
    (PuzzleAccepted /\ AllDigits(witness.state)) =>
        /\ Cardinality(GridLines) = SudokuSize + SudokuSize + SudokuSize
        /\ \A line \in GridLines : LineComplete(witness.state, line)

\* C21 witness: a grid of digits other than the reference grid was accepted.
C21_Witness ==
    /\ PuzzleAccepted
    /\ AllDigits(witness.state)
    /\ witness.state # Concat(ReferenceSudoku)

\* The product of a sequence of field elements.
RECURSIVE FieldProduct(_)
FieldProduct(seq_) ==
    IF seq_ = <<>> THEN 1 ELSE Mul(Head(seq_), FieldProduct(Tail(seq_)))

\* The line check_puzzle is at, or stopped at: its nine assigned cells.
CurrentPerm == [k \in SudokuRange |-> cells.non_zero_sudoku_cells[Perms[idx][k]]]

\* C22: the lines check_puzzle goes through are the 27 lines of the grid; for
\* the line in hand it multiplies exactly the 36 differences perm[i] - perm[j]
\* with i < j, lhs * lhs_inv = 1 has a solution lhs_inv iff that product is
\* non-zero, and the product is non-zero iff the nine entries are pairwise
\* distinct; a line whose product is zero ends the call, any other is passed
\* with its constraint satisfied.
C22_ProductOfDifferences ==
    (pc \in {"perms", "done"} /\ idx <= Len(Perms)) =>
        LET diffs == PairwiseDifferences(CurrentPerm, 1, 2, <<>>)
            product == PairwiseProduct(CurrentPerm, 1, 2, 1)
            distinct == \A i \in SudokuRange, j \in SudokuRange :
                            i < j => CurrentPerm[i] # CurrentPerm[j]
        IN  /\ {{Perms[n][k] : k \in SudokuRange} : n \in DOMAIN Perms} = GridLines
            /\ Len(Perms) = Cardinality(GridLines)
            /\ Len(diffs) = (SudokuSize * (SudokuSize - 1)) \div 2
            /\ product = FieldProduct(diffs)
            /\ (\E product_inv \in 0 .. (FieldModulus - 1) : Mul(product, product_inv) = 1)
                  <=> product # 0
            /\ product # 0 <=> distinct
            /\ result = Panic => ~distinct
            /\ \A n \in 1 .. (idx - 1) :
                  /\ n \notin unsatisfied
                  /\ \A i \in SudokuRange, j \in SudokuRange :
                        i < j => cells.non_zero_sudoku_cells[Perms[n][i]]
                                    # cells.non_zero_sudoku_cells[Perms[n][j]]

\* C22 witness: the rows and the columns were passed and the product of a box
\* was zero.
C22_Witness ==
    /\ pc = "done"
    /\ result = Panic
    /\ idx > SudokuSize + SudokuSize

\* The non-blank cells of the grid are digits 1 .. 9.
NonBlankAreDigits(state_) == \A i \in SudokuCells : state_[i] \in 0 .. SudokuSize

\* C23: the cells tested for distinctness are the grid's cells with the blank
\* at index i replaced by 10 + i and every other cell kept; when the non-blank
\* cells are digits 1 .. 9 a remapped blank differs from every other tested
\* cell (stated where the distinctness check starts), and the grid passes iff
\* no digit occurs twice in a line.
C23_BlanksRemapped ==
    /\ (pc = "perms" /\ idx = 1) =>
          /\ \A i \in SudokuCells :
                /\ witness.state[i] = 0 => cells.non_zero_sudoku_cells[i] = BlankOffset + i
                /\ witness.state[i] # 0 => cells.non_zero_sudoku_cells[i] = witness.state[i]
          /\ NonBlankAreDigits(witness.state) =>
                \A i \in SudokuCells, j \in SudokuCells :
                    (witness.state[i] = 0 /\ i # j) =>
                        cells.non_zero_sudoku_cells[i] # cells.non_zero_sudoku_cells[j]
    /\ (pc = "done" /\ NonBlankAreDigits(witness.state)) =>
          (PuzzleAccepted <=> ~DuplicatedDigit(witness.state))

\* C23 witness: a grid with two blank cells in one line was accepted.
C23_Witness ==
    /\ PuzzleAccepted
    /\ \E i \in SudokuCells, j \in SudokuCells :
          SameLine(i, j) /\ witness.state[i] = 0 /\ witness.state[j] = 0

\* A grid whose non-blank cells are pairwise distinct within each line is
\* rejected: one of them is the value a blank of its line is remapped to.
RemappedBlankMeetsCell ==
    /\ pc = "done"
    /\ ~PuzzleAccepted
    /\ \A i \in SudokuCells, j \in SudokuCells :
          (SameLine(i, j) /\ witness.state[i] # 0) => witness.state[i] # witness.state[j]

(***************************************************************************)
(* Further properties of the partial-fulfillment checks (checked under     *)
(* SpecIntent).                                                            *)
(***************************************************************************)
\* Output resource 1 is the leftover resource of the order.
LeftoverReturned ==
    LET leftover == witness.output_resource_variables[1]
    IN  /\ leftover.logic = witness.label.token_resource_logic_vk
        /\ leftover.label = witness.label.sold_token
        /\ leftover.npk = witness.label.receiver_npk
        /\ leftover.value = witness.label.receiver_value

\* C24: when the flag is non-zero the checks are satisfied only if output
\* resource 1 has the label's token logic, the sold token as label, the
\* receiver's npk and value, and a quantity r with B * (S - r) == S * b, the
\* remainder of the actually sold s = S - r; each of the four fields that
\* differs leaves its own region unsatisfied.
C24_LeftoverResource ==
    (pc = "done" /\ cells.is_partial_fulfillment # 0) =>
        LET leftover == witness.output_resource_variables[1]
        IN  /\ unsatisfied = {} =>
                  /\ LeftoverReturned
                  /\ cells.actual_sold_quantity = Sub(SoldS, leftover.quantity)
                  /\ Mul(BoughtB, cells.actual_sold_quantity) = Mul(SoldS, ActualB)
            /\ "returned_vk" \in unsatisfied
                  <=> leftover.logic # witness.label.token_resource_logic_vk
            /\ "returned_label" \in unsatisfied <=> leftover.label # witness.label.sold_token
            /\ "returned_npk" \in unsatisfied <=> leftover.npk # witness.label.receiver_npk
            /\ "returned_value" \in unsatisfied
                  <=> leftover.value # witness.label.receiver_value

\* C24 witness: an order selling 4 for 2, consumed and half filled (b = 1),
\* with the leftover resource carrying the remaining 2, satisfies the checks.
C24_Witness ==
    /\ Satisfied
    /\ cells.is_partial_fulfillment # 0
    /\ SoldS = 4 /\ BoughtB = 2 /\ ActualB = 1 /\ Returned = 2
    /\ LeftoverReturned

(***************************************************************************)
(* Further properties of one resource logic (checked under SpecLogic).     *)
(***************************************************************************)
\* C26: a call of verify_transparently whose dispatch succeeded returns
\* InconsistentNullifier whenever the nullifier pair mismatches, also when the
\* commitment pair mismatches too, and then without having compared the
\* commitments; it returns InconsistentOutputResourceCommitment only when the
\* nullifier pair matches and the commitment pair does not.
C26_NullifierCheckFirst ==
    (pc = "done" /\ op = "verify_transparently" /\ IsOk(Dispatch(features, logic))) =>
        /\ ~Paired(compliance_nfs, LogicNfs) =>
              /\ result = Err("InconsistentNullifier")
              /\ "cms" \notin compared
        /\ result = Err("InconsistentOutputResourceCommitment") <=>
              (Paired(compliance_nfs, LogicNfs) /\ ~Paired(compliance_cms, LogicCms))

\* C26 witness: both pairs mismatch and the call returned InconsistentNullifier.
C26_Witness ==
    /\ pc = "done"
    /\ op = "verify_transparently"
    /\ ~Paired(compliance_nfs, LogicNfs)
    /\ ~Paired(compliance_cms, LogicCms)
    /\ result = Err("InconsistentNullifier")

\* The four resources the compliance data binds: its nullifiers and commitments.
BoundResources ==
    {compliance_nfs[1], compliance_nfs[2], compliance_cms[1], compliance_cms[2]}

\* C27 as stated: whenever verify_transparently returns Ok(id), id is one of
\* the two compliance nullifiers or one of the two compliance commitments.
C27_AsStated ==
    (pc = "done" /\ op = "verify_transparently" /\ IsOk(result)) =>
        result.val \in BoundResources

\* What the call does guarantee of a returned id: it is the owned-resource-id
\* slot of the public inputs the dispatch produced, and both pairs matched.
ReturnedIdIsDeclaredId ==
    (pc = "done" /\ op = "verify_transparently" /\ IsOk(result)) =>
        /\ result.val =
              logic.inputs.public_inputs[RESOURCE_LOGIC_CIRCUIT_OWNED_RESOURCE_ID_PUBLIC_INPUT_IDX]
        /\ Paired(compliance_nfs, LogicNfs)
        /\ Paired(compliance_cms, LogicCms)

(***************************************************************************)
(* ApplicationByteCode::verify_transparently on two applications made of   *)
(* the same logics in different orders.                                    *)
(***************************************************************************)
\* The logics of an application, the mandatory one first.
LogicList(application_) ==
    <<application_.app_resource_logic_bytecode>>
        \o application_.dynamic_resource_logic_bytecode

\* The application made of the same logics with those at the places a_ and b_
\* of LogicList exchanged; place 1 is the mandatory position.
Exchanged(application_, a_, b_) ==
    LET list == LogicList(application_)
        swapped == [list EXCEPT ![a_] = list[b_], ![b_] = list[a_]]
    IN  ApplicationByteCode_new(Head(swapped), Tail(swapped))

InitOrder ==
    /\ features \in {Features, {"borsh"}}
    /\ application \in
          {ApplicationByteCode_new(a, d) :
              a \in LifecycleLogics,
              d \in UNION {[1 .. n -> LifecycleLogics] : n \in 1 .. MaxDynamic}}
    /\ logic = application.app_resource_logic_bytecode
    /\ witness \in
          [original : {application},
           exchanged : {Exchanged(application, a, b) :
                            a \in 1 .. Len(LogicList(application)),
                            b \in 1 .. Len(LogicList(application))}]
    /\ compliance_nfs \in CompliancePairs
    /\ compliance_cms \in CompliancePairs
    /\ cells = <<>>
    /\ unsatisfied = {}
    /\ op = "none"
    /\ pc = "idle"
    /\ public_inputs = <<>>
    /\ compared = {}
    /\ owned_resource_id = 0
    /\ idx = 0
    /\ verifying_infos = <<>>
    /\ evaluated = <<>>
    /\ result = NoResult
    /\ transaction = <<>>
    /\ position = <<>>
    /\ tx_result = NoResult

\* The result of the first application is kept and verify_transparently is
\* called on the second with the same compliance data.
OrderSwitch ==
    /\ pc = "done"
    /\ cells = <<>>
    /\ cells' = <<result>>
    /\ application' = witness.exchanged
    /\ logic' = witness.exchanged.app_resource_logic_bytecode
    /\ op' = "none"
    /\ pc' = "idle"
    /\ public_inputs' = <<>>
    /\ compared' = {}
    /\ owned_resource_id' = 0
    /\ idx' = 0
    /\ verifying_infos' = <<>>
    /\ evaluated' = <<>>
    /\ result' = NoResult
    /\ UNCHANGED <<features, compliance_nfs, compliance_cms, witness, unsatisfied, txVars>>

NextOrder ==
    \/ AppVerifyMandatory
    \/ AppVerifyDynamic
    \/ AppVerifyReturn
    \/ OrderSwitch

SpecOrder == InitOrder /\ [][NextOrder]_vars

\* C28: the two applications succeed or fail together, and on success return
\* the same id.
C28_OrderIndependent ==
    (pc = "done" /\ cells # <<>>) =>
        /\ IsOk(result) <=> IsOk(cells[1])
        /\ IsOk(result) => result = cells[1]

\* C28 witness: both applications succeeded, the second having another logic
\* in the mandatory position.
C28_Witness ==
    /\ pc = "done"
    /\ cells # <<>>
    /\ IsOk(result)
    /\ application = witness.exchanged
    /\ witness.original.app_resource_logic_bytecode
           # witness.exchanged.app_resource_logic_bytecode

\* The two applications failed with errors of different kinds.
ErrorKindDependsOnOrder ==
    /\ pc = "done"
    /\ cells # <<>>
    /\ IsErr(result)
    /\ IsErr(cells[1])
    /\ result # cells[1]

(***************************************************************************)
(* The constraints of check_puzzle as a prover meets them.  Each of the    *)
(* non_zero_sudoku_cells is assigned by assign_free_advice and no gate or  *)
(* copy constraint relates it to the state cell it is computed from: the   *)
(* values are the prover's choice.                                         *)
(***************************************************************************)
\* The current states a prover holds: the reference grid with one cell of its
\* first row overwritten by a blank or a digit.
ProverStates ==
    {[Concat(ReferenceSudoku) EXCEPT ![i] = v] :
        i \in 0 .. (SudokuSize - 1), v \in 0 .. SudokuSize}

\* The values the code computes for the advice cells of a state.
ComputedAdvice(state_) ==
    [i \in SudokuCells |-> IF state_[i] = 0 THEN BlankOffset + i ELSE state_[i]]

InitProver ==
    /\ witness \in
          {[state |-> s, advice |-> a] :
              s \in ProverStates,
              a \in {ComputedAdvice(t) : t \in {Concat(ReferenceSudoku)} \cup ProverStates}}
    /\ cells = <<>>
    /\ unsatisfied = {}
    /\ pc = "idle"
    /\ op = "check_puzzle"
    /\ idx = 0
    /\ result = NoResult
    /\ features = Features
    /\ logic = <<>>
    /\ application = <<>>
    /\ compliance_nfs = <<>>
    /\ compliance_cms = <<>>
    /\ public_inputs = <<>>
    /\ compared = {}
    /\ owned_resource_id = 0
    /\ verifying_infos = <<>>
    /\ evaluated = <<>>
    /\ transaction = <<>>
    /\ position = <<>>
    /\ tx_result = NoResult

\* assign_free_advice of the 81 non_zero_sudoku_cells with the prover's values.
ProverNonZeroCells ==
    /\ pc = "idle"
    /\ cells' = [non_zero_sudoku_cells |-> witness.advice]
    /\ idx' = 1
    /\ pc' = "perms"
    /\ UNCHANGED <<puzzleFrame, unsatisfied, result>>

NextProver ==
    \/ ProverNonZeroCells
    \/ PuzzleCheckPerm
    \/ PuzzleReturn

SpecProver == InitProver /\ [][NextProver]_vars

\* C29 as stated: all constraints of check_puzzle are satisfied only if the
\* non-zero cells of the current state are pairwise distinct in every row,
\* column and box.
C29_AsStated ==
    PuzzleAccepted => ~DuplicatedDigit(witness.state)

\* The honest prover's case: with the advice the code computes, the
\* constraints are satisfied only by a state without a duplicated digit.
ComputedAdviceIsSound ==
    (PuzzleAccepted /\ witness.advice = ComputedAdvice(witness.state)) =>
        ~DuplicatedDigit(witness.state)

(***************************************************************************)
(* verify_transparently with compliance slices of two or more elements:    *)
(* two calls on one logic whose slices agree on the elements 0 and 1.      *)
(***************************************************************************)
\* The longest compliance slice passed.
MaxSlice == 3

\* Compliance slices: a pair of CompliancePairs followed by up to
\* MaxSlice - 2 further elements, all of them the same field element.
ComplianceSlices ==
    UNION {{p \o [i \in 1 .. n |-> v] : p \in CompliancePairs, v \in Field} :
              n \in 0 .. (MaxSlice - 2)}

\* The first two elements of a slice.
FirstTwo(slice_) == <<slice_[1], slice_[2]>>

InitSlices ==
    /\ features = Features
    /\ logic \in {b \in SampleLogics :
                     /\ b.inputs.satisfied
                     /\ b.circuit = "VampIR"
                     /\ b.inputs.public_inputs[
                            RESOURCE_LOGIC_CIRCUIT_OWNED_RESOURCE_ID_PUBLIC_INPUT_IDX] <= 1}
    /\ application = ApplicationByteCode_new(logic, <<>>)
    /\ compliance_nfs \in ComplianceSlices
    /\ compliance_cms \in ComplianceSlices
    /\ witness \in
          [compliance_nfs : {s \in ComplianceSlices : FirstTwo(s) = FirstTwo(compliance_nfs)},
           compliance_cms : {s \in ComplianceSlices : FirstTwo(s) = FirstTwo(compliance_cms)}]
    /\ cells = <<>>
    /\ unsatisfied = {}
    /\ op = "none"
    /\ pc = "idle"
    /\ public_inputs = <<>>
    /\ compared = {}
    /\ owned_resource_id = 0
    /\ idx = 0
    /\ verifying_infos = <<>>
    /\ evaluated = <<>>
    /\ result = NoResult
    /\ transaction = <<>>
    /\ position = <<>>
    /\ tx_result = NoResult

\* The result of the first call is kept, with the slices it was given, and
\* verify_transparently is called on the same logic with the second slices.
SliceSwitch ==
    /\ pc = "done"
    /\ cells = <<>>
    /\ cells' = <<result, compliance_nfs, compliance_cms>>
    /\ compliance_nfs' = witness.compliance_nfs
    /\ compliance_cms' = witness.compliance_cms
    /\ op' = "none"
    /\ pc' = "idle"
    /\ public_inputs' = <<>>
    /\ compared' = {}
    /\ result' = NoResult
    /\ UNCHANGED <<features, logic, application, appLocals, witness, unsatisfied, txVars>>

NextSlices ==
    \/ RLDispatch
    \/ RLCheckNullifiers
    \/ RLCheckCommitments
    \/ SliceSwitch

SpecSlices == InitSlices /\ [][NextSlices]_vars

\* C30: two calls whose compliance slices agree on the elements 0 and 1 give
\* the same result, whatever the slices hold beyond them; the logic is accepted
\* exactly when its pairs match the first two elements.
C30_FirstTwoElementsOnly ==
    pc = "done" =>
        /\ cells # <<>> => result = cells[1]
        /\ IsOk(result) <=>
              /\ Paired(FirstTwo(compliance_nfs), LogicNfs)
              /\ Paired(FirstTwo(compliance_cms), LogicCms)

\* C30 witness: the logic was accepted against pairs and against longer
\* slices whose further elements are no nullifier and no commitment of the
\* logic.
C30_Witness ==
    /\ pc = "done"
    /\ cells # <<>>
    /\ IsOk(result)
    /\ Len(cells[2]) = 2
    /\ Len(cells[3]) = 2
    /\ Len(compliance_nfs) > 2
    /\ Len(compliance_cms) > 2
    /\ compliance_nfs[Len(compliance_nfs)] \notin {LogicNfs[1], LogicNfs[2]}
    /\ compliance_cms[Len(compliance_cms)] \notin {LogicCms[1], LogicCms[2]}

====
